---- MODULE Spec2Model ----
(***************************************************************************)
(* A model of the deb822 control-file library: the Stanza ordered map, the *)
(* StanzaReader (line reader and clearsign unwrapping), the Decoder and    *)
(* the Encoder.  Text is modelled character by character: a Go string is a *)
(* sequence of one-character strings, so trimming, splitting and folding   *)
(* are computed the way the code computes them.                            *)
(***************************************************************************)
EXTENDS Integers, Sequences, FiniteSets, TLC

VARIABLES
    doc,        \* the text the reader was created over (never changes)
    input,      \* what is still unread in StanzaReader.reader
    paragraph,  \* Next's local `paragraph` (the Stanza under construction)
    lastKey,    \* Next's local `lastKey`
    pc,         \* "idle": between calls; "loop": inside Next's for loop;
                \* "panic": the goroutine crashed
    results,    \* what the Next calls made so far returned, in call order
    stream,     \* the io.Reader NewStanzaReader is given
    keyring,    \* the keyring NewStanzaReader is given
    signer,     \* StanzaReader.signer
    records,    \* the records the Decoder has produced, in order
    encoded,    \* how many of them have been given to the Encoder
    out,        \* what has been written to the Encoder's writer
    alreadyWritten, \* Encoder.alreadyWritten
    args,       \* the arguments of a call of the types packages
    ret         \* what the calls made on them have returned

openVars == <<stream, keyring, signer>>
codecVars == <<records, encoded, out, alreadyWritten>>
callVars == <<args, ret>>
vars == <<doc, input, paragraph, lastKey, pc, results, openVars, codecVars,
          callVars>>

---------------------------------------------------------------------------
(* Bounds of the model.                                                    *)

\* Longest document, in lines.
MaxLines == 4
\* Next calls made after the first one on a reader.
MaxExtraCalls == 2

---------------------------------------------------------------------------
(* Text.                                                                   *)

NL == "\n"
Str0 == << >>

\* unicode.IsSpace on the characters of the model's alphabet.
IsSpace(c) == c \in {" ", "\t", "\r", "\n"}

\* strings.HasPrefix(s, <<c>>) for a one-character prefix.
HasPrefix(s, c) == Len(s) > 0 /\ s[1] = c

HasSuffix(s, c) == Len(s) > 0 /\ s[Len(s)] = c

\* strings.TrimLeftFunc(s, unicode.IsSpace)
TrimLeftSpace(s) ==
    IF \A i \in 1..Len(s) : IsSpace(s[i]) THEN Str0
    ELSE LET i == CHOOSE i \in 1..Len(s) :
                     /\ ~IsSpace(s[i])
                     /\ \A j \in 1..(i - 1) : IsSpace(s[j])
         IN SubSeq(s, i, Len(s))

\* strings.TrimRightFunc(s, unicode.IsSpace)
TrimRightSpace(s) ==
    IF \A i \in 1..Len(s) : IsSpace(s[i]) THEN Str0
    ELSE LET i == CHOOSE i \in 1..Len(s) :
                     /\ ~IsSpace(s[i])
                     /\ \A j \in (i + 1)..Len(s) : IsSpace(s[j])
         IN SubSeq(s, 1, i)

\* strings.TrimSpace(s)
TrimSpace(s) == TrimLeftSpace(TrimRightSpace(s))

\* Index of the first c in s, 0 when there is none.
IndexOf(s, c) ==
    IF \E i \in 1..Len(s) : s[i] = c
    THEN CHOOSE i \in 1..Len(s) : s[i] = c /\ \A j \in 1..(i - 1) : s[j] /= c
    ELSE 0

\* strings.SplitN(s, ":", 2)
SplitN2(s) ==
    LET i == IndexOf(s, ":")
    IN IF i = 0 THEN <<s>>
       ELSE <<SubSeq(s, 1, i - 1), SubSeq(s, i + 1, Len(s))>>

\* bufio.Reader.ReadString('\n'): the text up to and including the first
\* newline; at the end of the buffer, what is left together with io.EOF.
ReadString(in) ==
    LET i == IndexOf(in, NL)
    IN IF i = 0
       THEN [line |-> in, rest |-> Str0, eof |-> TRUE]
       ELSE [line |-> SubSeq(in, 1, i), rest |-> SubSeq(in, i + 1, Len(in)),
             eof |-> FALSE]

---------------------------------------------------------------------------
(* Stanza: Values (a Go map, nil until the first Set) and Order.           *)

EmptyMap == [k \in {} |-> Str0]

\* var paragraph Stanza
ZeroStanza == [Values |-> EmptyMap, Order |-> << >>, nilValues |-> TRUE]

\* m[k] on a Go map: the zero value for a missing key (also on a nil map).
MapGet(m, k) == IF k \in DOMAIN m THEN m[k] ELSE Str0

\* m[k] = v on a non-nil Go map.
MapPut(m, k, v) == [x \in (DOMAIN m) \cup {k} |-> IF x = k THEN v ELSE m[x]]

\* A Set that appends the key to Order whether or not it is there already.
SetAppendsAlways(p, key, value) ==
    [Values |-> MapPut(p.Values, key, value),
     Order |-> Append(p.Order, key),
     nilValues |-> FALSE]

\* func (p *Stanza) Set(key, value string)
Set(p, key, value) ==
    IF key \in DOMAIN p.Values
    THEN [p EXCEPT !.Values = MapPut(p.Values, key, value)]
    ELSE [Values |-> MapPut(p.Values, key, value),
          Order |-> Append(p.Order, key),
          nilValues |-> FALSE]

---------------------------------------------------------------------------
(* StanzaReader.Next: one iteration of its for loop.                       *)

\* What Next returns to its caller (kind "stanza", "eof" or "error"), or
\* kind "panic" when the call crashed instead of returning; `unread` is
\* what the call left in the reader.
Result(kind, stanza, msg, unread) ==
    [kind |-> kind, stanza |-> stanza, msg |-> msg, unread |-> unread]

\* A reader that does not repair an unterminated last line: it is dropped.
NextLineDropsLast(in) == ReadString(in)

\* line, err := pr.reader.ReadString('\n'), and the repair of an
\* unterminated last line: err = nil, line = line + "\n".
NextLine(in) ==
    LET r == ReadString(in)
    IN IF r.eof /\ r.line /= Str0
       THEN [line |-> r.line \o <<NL>>, rest |-> r.rest, eof |-> FALSE]
       ELSE r

\* The branch of the loop body a line takes, in the order the code tests.
LineKind(l) ==
    IF l.eof THEN "eof"
    ELSE IF TrimSpace(l.line) = Str0 THEN "blank"
    ELSE IF HasPrefix(l.line, "#") THEN "comment"
    ELSE IF HasPrefix(l.line, " ") \/ HasPrefix(l.line, "\t") THEN "continuation"
    ELSE IF Len(SplitN2(l.line)) /= 2 THEN "malformed"
    ELSE "field"

\* A continuation line's text: line[1:] right-trimmed, a lone "." emptied.
ContinuationText(line) ==
    LET t == TrimRightSpace(Tail(line))
    IN IF t = <<".">> THEN Str0 ELSE t

\* The value of lastKey after a continuation line is added to it.
AppendContinuation(old, text) ==
    IF old = Str0
    THEN text \o <<NL>>
    ELSE (IF HasSuffix(old, NL) THEN old ELSE old \o <<NL>>) \o text \o <<NL>>

\* The loop body. `outcome` is "continue" when the loop goes round again,
\* and otherwise the kind of the Result the call ends with.
Step(in, p, key, outcome, msg) ==
    [input |-> in, paragraph |-> p, lastKey |-> key, outcome |-> outcome,
     msg |-> msg]

\* A reader whose blank line ends the stanza even when it has no field yet.
OnBlankAlwaysReturns(l, p, key) == Step(l.rest, p, key, "stanza", Str0)

OnEOF(l, p, key) ==
    IF Len(p.Order) > 0
    THEN Step(l.rest, p, key, "stanza", Str0)
    ELSE Step(l.rest, p, key, "eof", Str0)

OnBlank(l, p, key) ==
    IF Len(p.Order) = 0
    THEN Step(l.rest, p, key, "continue", Str0)
    ELSE Step(l.rest, p, key, "stanza", Str0)

\* A reader that ends the stanza at a comment line, as at a blank line.
OnCommentEndsStanza(l, p, key) == OnBlank(l, p, key)

OnComment(l, p, key) == Step(l.rest, p, key, "continue", Str0)

\* A reader that joins continuation lines without the code's newlines.
OnContinuationNoNewline(l, p, key) ==
    IF p.nilValues
    THEN Step(l.rest, p, key, "panic", Str0)
    ELSE Step(l.rest,
              [p EXCEPT !.Values = MapPut(p.Values, key,
                   MapGet(p.Values, key) \o ContinuationText(l.line))],
              key, "continue", Str0)

\* paragraph.Values[lastKey] = ... : an assignment to an entry of a nil map
\* panics, which is the case when no field line came before in this call.
OnContinuation(l, p, key) ==
    IF p.nilValues
    THEN Step(l.rest, p, key, "panic", Str0)
    ELSE Step(l.rest,
              [p EXCEPT !.Values = MapPut(p.Values, key,
                   AppendContinuation(MapGet(p.Values, key),
                                      ContinuationText(l.line)))],
              key, "continue", Str0)

OnMalformed(l, p, key) == Step(l.rest, p, key, "error", l.line)

OnField(l, p, key) ==
    LET els == SplitN2(l.line)
        k == TrimSpace(els[1])
        value == TrimSpace(els[2])
    IN Step(l.rest, Set(p, k, value), k, "continue", Str0)

\* One iteration of the loop of Next.
NextStep(in, p, key) ==
    LET l == NextLine(in)
        kind == LineKind(l)
    IN CASE kind = "eof" -> OnEOF(l, p, key)
         [] kind = "blank" -> OnBlank(l, p, key)
         [] kind = "comment" -> OnComment(l, p, key)
         [] kind = "continuation" -> OnContinuation(l, p, key)
         [] kind = "malformed" -> OnMalformed(l, p, key)
         [] OTHER -> OnField(l, p, key)

\* The Result a finished step makes the call end with.
StepResult(s) ==
    Result(s.outcome, IF s.outcome = "stanza" THEN s.paragraph ELSE ZeroStanza,
           s.msg, s.input)

\* func (pr *StanzaReader) Next(): the loop run to its end, from a fresh
\* paragraph.  [input, result]
RECURSIVE NextLoop(_, _, _)
NextLoop(in, p, key) ==
    LET s == NextStep(in, p, key)
    IN IF s.outcome = "continue"
       THEN NextLoop(s.input, s.paragraph, s.lastKey)
       ELSE [input |-> s.input, result |-> StepResult(s)]

Next(in) == NextLoop(in, ZeroStanza, Str0)

---------------------------------------------------------------------------
(* The stream given to NewStanzaReader, and the OpenPGP collaborator.      *)

Nil == "nil"

\* The entities that sign documents and fill keyrings.
Entities == {"K1", "K2"}

\* An openpgp.EntityList: nil, or a list (possibly empty) of entities.
NilKeyring == [isNil |-> TRUE, entities |-> {}]
Keyring(es) == [isNil |-> FALSE, entities |-> es]
Keyrings == {NilKeyring} \cup {Keyring(es) : es \in SUBSET Entities}

\* A stream that does not start with "-----BEGIN PGP ": its text.
PlainStream(text) ==
    [armored |-> FALSE, text |-> text, complete |-> FALSE, issuer |-> Nil,
     sigOK |-> FALSE, rest |-> Str0]

\* A stream that starts with "-----BEGIN PGP ": the message `text` in a
\* clearsign envelope (complete: the armor headers, the end of the text
\* and the signature block are all there), signed by `issuer` with a
\* signature that matches the message or not, and `rest` after the block.
ArmoredStream(text, complete, issuer, sigOK, rest) ==
    [armored |-> TRUE, text |-> text, complete |-> complete,
     issuer |-> issuer, sigOK |-> sigOK, rest |-> rest]

\* The encoder and decoder state of the specifications that use neither.
CodecIdle ==
    /\ records = << >>
    /\ encoded = 0
    /\ out = Str0
    /\ alreadyWritten = FALSE

\* No call of the types packages.
NoCall ==
    /\ args = << >>
    /\ ret = << >>

---------------------------------------------------------------------------
(* The documents the reader is run on.                                     *)

\* The lines documents are made of (without their line terminator): blank
\* and whitespace-only lines, a comment, field lines ("A: x", "B:y" with a
\* carriage return, "A:" with an empty value), continuation lines (a
\* tab-indented " c " with inner indentation and trailing space, " ."),
\* and a line without a colon.
Lines ==
    { Str0,
      <<" ">>,
      <<"#", "c">>,
      <<"A", ":", " ", "x">>,
      <<"B", ":", "y", "\r">>,
      <<"A", ":">>,
      <<"\t", " ", "c", " ">>,
      <<" ", ".">>,
      <<"x">> }

\* All sequences of at most n elements of S.
RECURSIVE SeqsUpTo(_, _)
SeqsUpTo(S, n) ==
    IF n = 0 THEN {<< >>}
    ELSE LET shorter == SeqsUpTo(S, n - 1)
         IN shorter \cup {Append(s, x) : s \in shorter, x \in S}

\* The lines of ls, each followed by a newline.
RECURSIVE JoinLines(_)
JoinLines(ls) ==
    IF ls = << >> THEN Str0
    ELSE Head(ls) \o <<NL>> \o JoinLines(Tail(ls))

\* The text of the lines ls; the last line unterminated when ~terminated.
TextOf(ls, terminated) ==
    LET t == JoinLines(ls)
    IN IF terminated \/ t = Str0 THEN t ELSE SubSeq(t, 1, Len(t) - 1)

\* The lines of a text (the inverse of TextOf for a terminated text).
RECURSIVE LinesOf(_)
LinesOf(t) ==
    IF t = Str0 THEN << >>
    ELSE LET r == ReadString(t)
         IN IF r.eof THEN <<r.line>>
            ELSE <<SubSeq(r.line, 1, Len(r.line) - 1)>> \o LinesOf(r.rest)

Docs == {TextOf(ls, b) : ls \in SeqsUpTo(Lines, MaxLines), b \in BOOLEAN}

---------------------------------------------------------------------------
(* The reader as a state machine: Next calls on one StanzaReader.          *)

InitReader ==
    /\ doc \in Docs
    /\ input = doc
    /\ paragraph = ZeroStanza
    /\ lastKey = Str0
    /\ pc = "idle"
    /\ results = << >>
    /\ stream = PlainStream(doc)
    /\ keyring = NilKeyring
    /\ signer = Nil
    /\ CodecIdle
    /\ NoCall

\* Results so far that were not a stanza.
NonStanzas == {i \in 1..Len(results) : results[i].kind /= "stanza"}

\* The caller calls Next: a fresh paragraph and lastKey.
NextCall ==
    /\ pc = "idle"
    /\ Cardinality(NonStanzas) < MaxExtraCalls
    /\ pc' = "loop"
    /\ paragraph' = ZeroStanza
    /\ lastKey' = Str0
    /\ UNCHANGED <<doc, input, results, openVars, callVars, codecVars>>

\* The loop takes the step s: it goes round again, or the call ends.
TakeStep(s) ==
    /\ input' = s.input
    /\ paragraph' = s.paragraph
    /\ lastKey' = s.lastKey
    /\ pc' = CASE s.outcome = "continue" -> "loop"
              [] s.outcome = "panic" -> "panic"
              [] OTHER -> "idle"
    /\ results' = IF s.outcome = "continue" THEN results
                  ELSE Append(results, StepResult(s))
    /\ UNCHANGED <<doc, openVars, callVars, codecVars>>

\* One iteration of the loop, by the kind of the line read.
LineEOF ==
    /\ pc = "loop"
    /\ LineKind(NextLine(input)) = "eof"
    /\ TakeStep(NextStep(input, paragraph, lastKey))

LineBlank ==
    /\ pc = "loop"
    /\ LineKind(NextLine(input)) = "blank"
    /\ TakeStep(NextStep(input, paragraph, lastKey))

LineComment ==
    /\ pc = "loop"
    /\ LineKind(NextLine(input)) = "comment"
    /\ TakeStep(NextStep(input, paragraph, lastKey))

LineContinuation ==
    /\ pc = "loop"
    /\ LineKind(NextLine(input)) = "continuation"
    /\ TakeStep(NextStep(input, paragraph, lastKey))

LineMalformed ==
    /\ pc = "loop"
    /\ LineKind(NextLine(input)) = "malformed"
    /\ TakeStep(NextStep(input, paragraph, lastKey))

LineField ==
    /\ pc = "loop"
    /\ LineKind(NextLine(input)) = "field"
    /\ TakeStep(NextStep(input, paragraph, lastKey))

NextReader ==
    \/ NextCall
    \/ LineEOF
    \/ LineBlank
    \/ LineComment
    \/ LineContinuation
    \/ LineMalformed
    \/ LineField

SpecReader == InitReader /\ [][NextReader]_vars

---------------------------------------------------------------------------
(* Whole runs, computed with the same loop body.                           *)

\* What a caller sees of a result.
View(r) == [kind |-> r.kind, stanza |-> r.stanza, msg |-> r.msg]

Views(rs) == [i \in 1..Len(rs) |-> View(rs[i])]

IsPrefix(s, t) == Len(s) <= Len(t) /\ SubSeq(t, 1, Len(s)) = s

\* The results of the Next calls a caller makes on a reader over `in`, who
\* stops after MaxExtraCalls results that are not a stanza, or at a crash.
RECURSIVE CallsLoop(_, _, _)
CallsLoop(in, acc, misses) ==
    IF misses >= MaxExtraCalls \/ (acc /= << >> /\ acc[Len(acc)].kind = "panic")
    THEN acc
    ELSE LET r == Next(in)
         IN CallsLoop(r.input, Append(acc, r.result),
                      IF r.result.kind = "stanza" THEN misses ELSE misses + 1)

CallsOn(text) == CallsLoop(text, << >>, 0)

\* func (pr *StanzaReader) All(): the results of the Next calls it makes,
\* up to the first one that is not a stanza.
RECURSIVE AllCalls(_, _)
AllCalls(in, acc) ==
    LET r == Next(in)
    IN IF r.result.kind = "stanza"
       THEN AllCalls(r.input, Append(acc, r.result))
       ELSE Append(acc, r.result)

\* The run is over: the caller makes no more calls.
Finished ==
    \/ pc = "panic"
    \/ pc = "idle" /\ Cardinality(NonStanzas) >= MaxExtraCalls

IsBlankLine(l) == \A i \in 1..Len(l) : IsSpace(l[i])
IsCommentLine(l) == Len(l) > 0 /\ l[1] = "#"
IsContinuationLine(l) == ~IsBlankLine(l) /\ l[1] \in {" ", "\t"}
IsFieldLine(l) ==
    /\ ~IsBlankLine(l)
    /\ l[1] \notin {" ", "\t", "#"}
    /\ \E i \in 1..Len(l) : l[i] = ":"

\* Whether the text ends with a line terminator.
Terminated(t) == t = Str0 \/ t[Len(t)] = NL

\* The lines ls without those at the positions in drop.
RECURSIVE DropAt(_, _, _)
DropAt(ls, drop, i) ==
    IF i > Len(ls) THEN << >>
    ELSE (IF i \in drop THEN << >> ELSE <<ls[i]>>) \o DropAt(ls, drop, i + 1)

\* The text t without the lines at the positions in drop (a dropped last
\* line leaves the line before it terminated).
WithoutLines(t, drop) ==
    LET ls == LinesOf(t)
    IN TextOf(DropAt(ls, drop, 1), Terminated(t) \/ Len(ls) \in drop)

\* t with every run of blank lines cut down: none before the first line
\* that is not blank, none after the last, one where there were several.
SqueezeBlank(t) ==
    LET ls == LinesOf(t)
        drop == {i \in 1..Len(ls) :
                    /\ IsBlankLine(ls[i])
                    /\ \/ \A j \in 1..(i - 1) : IsBlankLine(ls[j])
                       \/ \A j \in (i + 1)..Len(ls) : IsBlankLine(ls[j])
                       \/ IsBlankLine(ls[i - 1])}
    IN WithoutLines(t, drop)

\* t without its comment lines.
StripComments(t) ==
    LET ls == LinesOf(t)
    IN WithoutLines(t, {i \in 1..Len(ls) : IsCommentLine(ls[i])})

---------------------------------------------------------------------------
(* C3 *)

\* C3: Next never returns a stanza with zero fields, and the blank lines
\* before the first stanza, after the last one, and beyond the first of a
\* run between stanzas change nothing of what the calls return: the
\* results are those of the same calls on the text with these lines
\* removed (results only grow, so the finished run speaks for its prefixes).
C3_BlankLinesAbsorbed ==
    /\ \A i \in 1..Len(results) :
          results[i].kind = "stanza" => Len(results[i].stanza.Order) > 0
    /\ Finished => IsPrefix(Views(results), Views(CallsOn(SqueezeBlank(doc))))

\* A finished run that returned two stanzas from a document with blank
\* lines that the squeeze removes.
C3_Witness ==
    /\ Finished
    /\ SqueezeBlank(doc) /= doc
    /\ Cardinality({i \in 1..Len(results) : results[i].kind = "stanza"}) >= 2
    /\ results[Len(results)].kind = "eof"

---------------------------------------------------------------------------
(* C6 *)

\* C6: comment lines are discarded entirely: the calls return what the
\* same calls return on the text with every line that starts with '#'
\* deleted.
C6_CommentsDiscarded ==
    Finished => IsPrefix(Views(results), Views(CallsOn(StripComments(doc))))

\* A finished run over a document with a comment line between a field
\* line and its continuation line, which returned the stanza.
C6_Witness ==
    /\ Finished
    /\ LET ls == LinesOf(doc)
       IN \E i \in 2..(Len(ls) - 1) :
             /\ IsCommentLine(ls[i])
             /\ IsFieldLine(ls[i - 1])
             /\ IsContinuationLine(ls[i + 1])
    /\ results[1].kind = "stanza"

---------------------------------------------------------------------------
(* C4 *)

\* The text call i read: what the call before it left unread.
ReadBy(i) == IF i = 1 THEN doc ELSE results[i - 1].unread

MakeTerminated(t) == IF Terminated(t) THEN t ELSE t \o <<NL>>

\* C4: at the end of the input Next returns the stanza in progress when it
\* has a field: a call returns the exhaustion result only when what it
\* read held nothing but blank and comment lines, and an unterminated last
\* line is read like a terminated one.  Once a call has reached the end of
\* the input, every later call returns the exhaustion result.
C4_ExhaustionIsFinal ==
    /\ \A i \in 1..Len(results) :
          results[i].kind = "eof" =>
             /\ results[i].unread = Str0
             /\ \A l \in {LinesOf(ReadBy(i))[n] : n \in 1..Len(LinesOf(ReadBy(i)))} :
                   IsBlankLine(l) \/ IsCommentLine(l)
    /\ \A i \in 1..Len(results) :
          (results[i].unread = Str0 /\ results[i].kind \in {"stanza", "eof"})
             => \A j \in (i + 1)..Len(results) : results[j].kind = "eof"
    /\ Finished => IsPrefix(Views(results), Views(CallsOn(MakeTerminated(doc))))

\* A run over a document whose last line is an unterminated field line:
\* the call that reached the end returned the stanza, and the two calls
\* after it the exhaustion result.
C4_Witness ==
    /\ ~Terminated(doc)
    /\ IsFieldLine(LinesOf(doc)[Len(LinesOf(doc))])
    /\ Len(results) >= 3
    /\ LET n == Len(results)
       IN /\ results[n - 2].kind = "stanza"
          /\ results[n - 2].unread = Str0
          /\ results[n - 1].kind = "eof"
          /\ results[n].kind = "eof"

---------------------------------------------------------------------------
(* C5 *)

\* A continuation line as the format defines it: without its first
\* character and its trailing whitespace, a lone "." standing for nothing.
CleanContinuation(c) ==
    LET t == TrimRightSpace(SubSeq(c, 2, Len(c)))
    IN IF t = <<".">> THEN Str0 ELSE t

\* The text before the first colon of a field line, trimmed, and after it.
FieldKey(l) == TrimSpace(SubSeq(l, 1, IndexOf(l, ":") - 1))
FieldValue(l) == TrimSpace(SubSeq(l, IndexOf(l, ":") + 1, Len(l)))

\* The value of a field line 'Key: v' followed by the continuation lines cs.
FoldedValue(v, cs) ==
    LET folded == JoinLines([i \in 1..Len(cs) |-> CleanContinuation(cs[i])])
    IN IF v = Str0 THEN folded ELSE v \o <<NL>> \o folded

\* The document is one field line followed by continuation lines only.
IsFoldedField(ls) ==
    /\ Len(ls) >= 2
    /\ IsFieldLine(ls[1])
    /\ \A i \in 2..Len(ls) : IsContinuationLine(ls[i])

\* C5: a field line 'Key: v' followed by continuation lines c1..cn decodes
\* to v, then a newline and the cleaned ci for each i, then a final
\* newline; to the cleaned lines, each followed by a newline, when v is
\* empty.
C5_ContinuationValue ==
    (results /= << >> /\ IsFoldedField(LinesOf(doc))) =>
        LET ls == LinesOf(doc)
            key == FieldKey(ls[1])
        IN /\ results[1].kind = "stanza"
           /\ results[1].stanza.Order = <<key>>
           /\ results[1].stanza.Values[key] =
                 FoldedValue(FieldValue(ls[1]), Tail(ls))

\* The first call returned the value of a field with an empty v and three
\* continuation lines, an empty one (" .") among them.
C5_Witness ==
    /\ results /= << >>
    /\ IsFoldedField(LinesOf(doc))
    /\ Len(LinesOf(doc)) = 4
    /\ FieldValue(LinesOf(doc)[1]) = Str0
    /\ \E i \in 2..4 : LinesOf(doc)[i] = <<" ", ".">>
    /\ \E i \in 2..4 : LinesOf(doc)[i] = <<"\t", " ", "c", " ">>
    /\ results[1].kind = "stanza"

---------------------------------------------------------------------------
(* JSON, the form in which stanzas and records are exchanged: an object is *)
(* the sequence of its members <<name, value>>, both JSON string literals. *)

Quote == "\""
Backslash == "\\"

\* The escape letter of a character that a JSON string literal escapes.
EscapeOf(c) ==
    CASE c = NL -> "n"
      [] c = "\t" -> "t"
      [] c = "\r" -> "r"
      [] OTHER -> c

\* The character an escape letter stands for.
UnescapeOf(e) ==
    CASE e = "n" -> NL
      [] e = "t" -> "\t"
      [] e = "r" -> "\r"
      [] OTHER -> e

NeedsEscape(c) == c \in {NL, "\t", "\r", Quote, Backslash}

RECURSIVE EscapeChars(_)
EscapeChars(s) ==
    IF s = Str0 THEN Str0
    ELSE (IF NeedsEscape(Head(s)) THEN <<Backslash, EscapeOf(Head(s))>>
          ELSE <<Head(s)>>) \o EscapeChars(Tail(s))

RECURSIVE UnescapeChars(_)
UnescapeChars(s) ==
    IF s = Str0 THEN Str0
    ELSE IF Head(s) = Backslash /\ Len(s) >= 2
         THEN <<UnescapeOf(s[2])>> \o UnescapeChars(SubSeq(s, 3, Len(s)))
         ELSE <<Head(s)>> \o UnescapeChars(Tail(s))

\* json.Encoder.Encode of a string: the literal.
JSONQuote(s) == <<Quote>> \o EscapeChars(s) \o <<Quote>>

\* The string of a literal, as json.Decoder reads it.
JSONUnquote(q) == UnescapeChars(SubSeq(q, 2, Len(q) - 1))

\* func (p Stanza) MarshalJSON(): the keys in Order, those with an empty
\* value left out.
RECURSIVE MarshalKeys(_, _)
MarshalKeys(p, order) ==
    IF order = << >> THEN << >>
    ELSE (IF MapGet(p.Values, Head(order)) = Str0 THEN << >>
          ELSE << <<JSONQuote(Head(order)),
                    JSONQuote(MapGet(p.Values, Head(order)))>> >>)
         \o MarshalKeys(p, Tail(order))

MarshalJSON(p) == MarshalKeys(p, p.Order)

\* The loop over decoder.More(): a member with a non-empty value is Set.
RECURSIVE UnmarshalMembers(_, _)
UnmarshalMembers(p, members) ==
    IF members = << >> THEN p
    ELSE LET key == JSONUnquote(Head(members)[1])
             value == JSONUnquote(Head(members)[2])
         IN UnmarshalMembers(IF value /= Str0 THEN Set(p, key, value) ELSE p,
                             Tail(members))

\* func (p *Stanza) UnmarshalJSON(data []byte): Values is made when nil.
UnmarshalJSON(p, members) ==
    UnmarshalMembers([p EXCEPT !.nilValues = FALSE], members)

---------------------------------------------------------------------------
(* A Stanza under every operation that changes one: the line steps of the  *)
(* reader that builds it, and Set and UnmarshalJSON by the caller who was  *)
(* handed it (or who started from the zero Stanza).                        *)

\* Longest value a stanza of this specification holds.
MaxValueLen == 5
\* Most members of a JSON object given to UnmarshalJSON.
MaxMembers == 2

SetKeys == {<<"A">>, <<"B">>}
SetValues == {Str0, <<"x">>, <<"y">>}

\* The operation a step performed: kind "call", "line", "set" or "json".
Op(kind, key, value, line) ==
    [kind |-> kind, key |-> key, value |-> value, line |-> line]

ValuesFit(p) == \A k \in DOMAIN p.Values : Len(p.Values[k]) <= MaxValueLen

InitStanza ==
    /\ doc = Str0
    /\ input = Str0
    /\ paragraph = ZeroStanza
    /\ lastKey = Str0
    /\ pc \in {"loop", "idle"}
    /\ results = << >>
    /\ stream = PlainStream(Str0)
    /\ keyring = NilKeyring
    /\ signer = Nil
    /\ CodecIdle
    /\ NoCall

\* The caller calls Next again; the stanza it held is out of the picture.
StanzaNextCall ==
    /\ pc = "idle"
    /\ pc' = "loop"
    /\ paragraph' = ZeroStanza
    /\ lastKey' = Str0
    /\ results' = <<Op("call", Str0, Str0, Str0)>>
    /\ UNCHANGED <<doc, input, openVars, callVars, codecVars>>

\* The reader's loop body on the text `in`: a line of Lines, or nothing
\* (the end of the input).  A call that ends with a stanza hands it to the
\* caller; one that ends otherwise leaves the caller with the zero Stanza.
StanzaStep(in) ==
    LET s == NextStep(in, paragraph, lastKey)
    IN /\ ValuesFit(s.paragraph)
       /\ paragraph' = IF s.outcome \in {"eof", "error"} THEN ZeroStanza
                       ELSE s.paragraph
       /\ lastKey' = s.lastKey
       /\ pc' = CASE s.outcome = "continue" -> "loop"
                  [] s.outcome = "panic" -> "panic"
                  [] OTHER -> "idle"
       /\ results' = <<Op("line", Str0, Str0, in)>>
       /\ UNCHANGED <<doc, input, openVars, callVars, codecVars>>

StanzaLine ==
    /\ pc = "loop"
    /\ \E l \in Lines : StanzaStep(l \o <<NL>>)

StanzaEOF ==
    /\ pc = "loop"
    /\ StanzaStep(Str0)

\* The caller sets a field of the stanza it holds.
StanzaSet ==
    /\ pc = "idle"
    /\ \E key \in SetKeys, value \in SetValues :
          /\ paragraph' = Set(paragraph, key, value)
          /\ results' = <<Op("set", key, value, Str0)>>
    /\ UNCHANGED <<doc, input, lastKey, pc, openVars, callVars, codecVars>>

\* The caller unmarshals a JSON object into the stanza it holds.
StanzaUnmarshalJSON ==
    /\ pc = "idle"
    /\ \E members \in SeqsUpTo({<<JSONQuote(k), JSONQuote(v)>> :
                                     k \in SetKeys, v \in SetValues},
                                 MaxMembers) :
          /\ paragraph' = UnmarshalJSON(paragraph, members)
          /\ results' = <<Op("json", Str0, Str0, Str0)>>
    /\ UNCHANGED <<doc, input, lastKey, pc, openVars, callVars, codecVars>>

NextStanza ==
    \/ StanzaNextCall
    \/ StanzaLine
    \/ StanzaEOF
    \/ StanzaSet
    \/ StanzaUnmarshalJSON

SpecStanza == InitStanza /\ [][NextStanza]_vars

---------------------------------------------------------------------------
(* C2 *)

Range(s) == {s[i] : i \in 1..Len(s)}

NoDuplicates(s) == \A i, j \in 1..Len(s) : s[i] = s[j] => i = j

\* Order lists every key of Values exactly once.
StanzaConsistent(p) ==
    /\ NoDuplicates(p.Order)
    /\ Range(p.Order) = DOMAIN p.Values

\* From p to q only the value of key changed, to value.
OnlyValueChanged(p, q, key, value) ==
    /\ q.Order = p.Order
    /\ DOMAIN q.Values = DOMAIN p.Values
    /\ q.Values[key] = value
    /\ \A k \in DOMAIN p.Values : k /= key => q.Values[k] = p.Values[k]

\* The step set a key the stanza already had: a Set by the caller, or a
\* field line of the reader that repeats a field name of its stanza.
ResetsKey(op, p) ==
    \/ op.kind = "set" /\ op.key \in DOMAIN p.Values
    \/ /\ op.kind = "line"
       /\ IsFieldLine(op.line)
       /\ FieldKey(op.line) \in DOMAIN p.Values

ResetKey(op) == IF op.kind = "set" THEN op.key ELSE FieldKey(op.line)
ResetValue(op) == IF op.kind = "set" THEN op.value ELSE FieldValue(op.line)

\* C2: in every reachable Stanza, Order has no duplicate and lists exactly
\* the keys of Values; and a step that sets a key the stanza already has
\* (a Set, or a repeated field name in the reader's input) does not fail
\* and changes nothing but that key's value.
C2_StanzaOrderInvariant ==
    /\ [](StanzaConsistent(paragraph))
    /\ [][(results' /= results /\ results' /= << >>
           /\ ResetsKey(results'[1], paragraph))
          => /\ pc' \in {"idle", "loop"}
             /\ OnlyValueChanged(paragraph, paragraph',
                                 ResetKey(results'[1]), ResetValue(results'[1]))]_vars

\* A stanza of two keys, built by the reader and handed over, whose first
\* key the caller has just set again.
C2_Witness ==
    /\ pc = "idle"
    /\ Len(paragraph.Order) = 2
    /\ results /= << >>
    /\ results[1].kind = "set"
    /\ results[1].key = paragraph.Order[1]
    /\ paragraph.Values[paragraph.Order[2]] /= Str0

---------------------------------------------------------------------------
(* NewStanzaReader and decodeClearsig.                                     *)

\* bytes.TrimRight(line, " \t")
RECURSIVE TrimRightBlanks(_)
TrimRightBlanks(s) ==
    IF s /= Str0 /\ s[Len(s)] \in {" ", "\t"}
    THEN TrimRightBlanks(SubSeq(s, 1, Len(s) - 1))
    ELSE s

\* The lines of ls joined by "\r\n", none after the last.
RECURSIVE JoinCRLF(_)
JoinCRLF(ls) ==
    IF ls = << >> THEN Str0
    ELSE IF Len(ls) = 1 THEN ls[1]
    ELSE ls[1] \o <<"\r", NL>> \o JoinCRLF(Tail(ls))

\* clearsign.Block.Bytes for the message `text`: each line without its
\* line terminator ("\n" or "\r\n") and its trailing blanks, the lines
\* joined by "\r\n".
ClearsignBytes(text) ==
    LET ls == LinesOf(text)
        clean(l) == TrimRightBlanks(IF HasSuffix(l, "\r")
                                    THEN SubSeq(l, 1, Len(l) - 1) ELSE l)
    IN JoinCRLF([i \in 1..Len(ls) |-> clean(ls[i])])

\* block, _ := clearsign.Decode(signedData): nil unless the envelope is
\* complete; what follows the block is dropped.
ClearsignDecode(s) ==
    IF s.complete
    THEN [found |-> TRUE, Bytes |-> ClearsignBytes(s.text)]
    ELSE [found |-> FALSE, Bytes |-> Str0]

\* openpgp.CheckDetachedSignature(keyring, block.Bytes, signature): the
\* issuer's key must be in the keyring and the signature must match.
CheckDetachedSignature(kr, s) ==
    IF s.issuer \notin kr.entities THEN [err |-> "unknown issuer", signer |-> Nil]
    ELSE IF ~s.sigOK THEN [err |-> "invalid signature", signer |-> Nil]
    ELSE [err |-> Nil, signer |-> s.issuer]

\* What NewStanzaReader returns: err, or a reader with its signer.
Opened(err, sgn, reader) == [err |-> err, signer |-> sgn, reader |-> reader]

\* A decodeClearsig that checks the signature only against a keyring that
\* is not nil and leaves the signer unset otherwise.
DecodeClearsigSkipsNil(s, kr) ==
    LET block == ClearsignDecode(s)
        check == CheckDetachedSignature(kr, s)
    IN IF ~block.found THEN Opened("invalid clearsigned input", Nil, Str0)
       ELSE IF kr.entities = {} THEN Opened(Nil, Nil, block.Bytes)
       ELSE IF check.err /= Nil THEN Opened(check.err, Nil, Str0)
       ELSE Opened(Nil, check.signer, block.Bytes)

\* A decodeClearsig that goes on reading what follows the signed block.
DecodeClearsigKeepsRest(s, kr) ==
    LET block == ClearsignDecode(s)
        check == CheckDetachedSignature(kr, s)
    IN IF ~block.found THEN Opened("invalid clearsigned input", Nil, Str0)
       ELSE IF check.err /= Nil THEN Opened(check.err, Nil, Str0)
       ELSE Opened(Nil, check.signer, block.Bytes \o <<"\r", NL>> \o s.rest)

\* func (pr *StanzaReader) decodeClearsig(keyring openpgp.EntityList)
DecodeClearsig(s, kr) ==
    LET block == ClearsignDecode(s)
        check == CheckDetachedSignature(kr, s)
    IN IF ~block.found THEN Opened("invalid clearsigned input", Nil, Str0)
       ELSE IF check.err /= Nil THEN Opened(check.err, Nil, Str0)
       ELSE Opened(Nil, check.signer, block.Bytes)

\* func NewStanzaReader(reader io.Reader, keyring openpgp.EntityList):
\* the peek of the first 15 bytes decides whether this is an envelope.
NewStanzaReader(s, kr) ==
    IF ~s.armored THEN Opened(Nil, Nil, s.text)
    ELSE DecodeClearsig(s, kr)

---------------------------------------------------------------------------
(* Opening a stream and reading all of it.                                 *)

\* Longest signed message, in lines.
MaxSignedLines == 3

SignedTexts == {TextOf(ls, TRUE) : ls \in SeqsUpTo(Lines, MaxSignedLines)}

\* The entity that signed the enveloped documents.
Signers == {"K1"}

\* What may follow the signature block of an envelope.
Rests == {Str0, <<"B", ":", " ", "x", NL>>}

Streams ==
    {PlainStream(t) : t \in SignedTexts}
    \cup {ArmoredStream(t, c, i, ok, rest) :
             t \in SignedTexts, c \in BOOLEAN, i \in Signers, ok \in BOOLEAN,
             rest \in Rests}

InitOpen ==
    /\ stream \in Streams
    /\ keyring \in Keyrings
    /\ signer = Nil
    /\ doc = stream.text
    /\ input = Str0
    /\ paragraph = ZeroStanza
    /\ lastKey = Str0
    /\ pc = "new"
    /\ results = << >>
    /\ CodecIdle
    /\ NoCall

\* NewStanzaReader returns: a reader ("idle") or an error ("failed").
Open(o) ==
    /\ pc' = IF o.err = Nil THEN "idle" ELSE "failed"
    /\ signer' = o.signer
    /\ input' = o.reader
    /\ UNCHANGED <<doc, paragraph, lastKey, results, stream, keyring,
                   codecVars, callVars>>

OpenPlain ==
    /\ pc = "new"
    /\ ~stream.armored
    /\ Open(NewStanzaReader(stream, keyring))

OpenVerified ==
    /\ pc = "new"
    /\ stream.armored
    /\ NewStanzaReader(stream, keyring).err = Nil
    /\ Open(NewStanzaReader(stream, keyring))

OpenRejected ==
    /\ pc = "new"
    /\ stream.armored
    /\ NewStanzaReader(stream, keyring).err /= Nil
    /\ Open(NewStanzaReader(stream, keyring))

\* reader.All()
ReadAll ==
    /\ pc = "idle"
    /\ results = << >>
    /\ results' = AllCalls(input, << >>)
    /\ input' = results'[Len(results')].unread
    /\ pc' = IF results'[Len(results')].kind = "panic" THEN "panic" ELSE "idle"
    /\ UNCHANGED <<doc, paragraph, lastKey, openVars, callVars, codecVars>>

NextOpen ==
    \/ OpenPlain
    \/ OpenVerified
    \/ OpenRejected
    \/ ReadAll

SpecOpen == InitOpen /\ [][NextOpen]_vars

\* What a caller of All sees of a result: no error text.
Outcome(r) == [kind |-> r.kind, stanza |-> r.stanza]
Outcomes(rs) == [i \in 1..Len(rs) |-> Outcome(rs[i])]

---------------------------------------------------------------------------
(* C7 *)

\* C7: opening a document in a clearsign envelope with an empty keyring
\* fails: NewStanzaReader returns an error and no reader, and no stanza of
\* the document is ever returned.
C7_EmptyKeyringFails ==
    (stream.armored /\ keyring = Keyring({}) /\ pc /= "new") =>
        /\ pc = "failed"
        /\ signer = Nil
        /\ results = << >>

\* A complete, correctly signed envelope was refused under the empty
\* keyring.
C7_Witness ==
    /\ stream.armored /\ stream.complete /\ stream.sigOK
    /\ stream.text /= Str0
    /\ keyring = Keyring({})
    /\ pc = "failed"

---------------------------------------------------------------------------
(* C8 *)

\* C8: a complete envelope whose signature matches, opened with a keyring
\* that holds the signing entity, opens; Signer() is that entity; and All
\* returns what it returns on the signed message alone, nothing of what
\* follows the signature.
C8_VerifiedReadsPlaintext ==
    (/\ stream.armored /\ stream.complete /\ stream.sigOK
     /\ stream.issuer \in keyring.entities
     /\ pc /= "new") =>
        /\ pc /= "failed"
        /\ signer = stream.issuer
        /\ results /= << >> =>
              Outcomes(results) = Outcomes(AllCalls(stream.text, << >>))

\* All has read two stanzas from a verified envelope that has text after
\* its signature.
C8_Witness ==
    /\ stream.armored
    /\ stream.rest /= Str0
    /\ signer = "K1"
    /\ Len(results) = 3
    /\ results[1].kind = "stanza"
    /\ results[2].kind = "stanza"
    /\ results[3].kind = "eof"

---------------------------------------------------------------------------
(* C9 *)

\* C9: a nil or empty keyring disables the signature check: the envelope
\* is unwrapped unchecked, its stanzas can be read, and Signer() is nil.
C9_NilKeyringSkipsCheck ==
    (stream.armored /\ stream.complete /\ keyring.entities = {} /\ pc /= "new")
        => (pc /= "failed" /\ signer = Nil)

---------------------------------------------------------------------------
(* Records: a struct of string fields, decoded and encoded through JSON.   *)

\* The names of the fields of the record type, in declaration order: a
\* struct of two string fields, as TestStruct, here named A and B.
RecordFields == << <<"A">>, <<"B">> >>

ZeroRecord == [i \in 1..Len(RecordFields) |-> Str0]

\* Case folding on the letters of the model's alphabet.
Fold(c) ==
    CASE c = "a" -> "A"
      [] c = "b" -> "B"
      [] c = "c" -> "C"
      [] OTHER -> c

EqualFold(s, t) ==
    Len(s) = Len(t) /\ \A i \in 1..Len(s) : Fold(s[i]) = Fold(t[i])

MinOf(S) == CHOOSE i \in S : \A j \in S : i <= j
MaxOf(S) == CHOOSE i \in S : \A j \in S : j <= i

\* The field a JSON member name decodes into: the one of that name, else
\* the first one that matches it without regard to case, else none (0).
FieldIndex(name) ==
    LET exact == {i \in 1..Len(RecordFields) : RecordFields[i] = name}
        folded == {i \in 1..Len(RecordFields) : EqualFold(RecordFields[i], name)}
    IN IF exact /= {} THEN MinOf(exact)
       ELSE IF folded /= {} THEN MinOf(folded)
       ELSE 0

\* json.Unmarshal(jsonData, &record): each member in its order into the
\* field it names, so a field ends with the value of the last member that
\* names it; the members that name no field are skipped, the fields no
\* member names are left as they were.
JSONUnmarshalStruct(members, rec) ==
    [i \in 1..Len(rec) |->
        LET hits == {j \in 1..Len(members) :
                        FieldIndex(JSONUnquote(members[j][1])) = i}
        IN IF hits = {} THEN rec[i]
           ELSE JSONUnquote(members[MaxOf(hits)][2])]

\* json.Marshal(record): every field, in declaration order.
JSONMarshalStruct(rec) ==
    [i \in 1..Len(RecordFields) |-> <<JSONQuote(RecordFields[i]), JSONQuote(rec[i])>>]

\* func decodeStruct(stanza Stanza, into reflect.Value)
decodeStruct(stanza, into) == JSONUnmarshalStruct(MarshalJSON(stanza), into)

\* func convertToStanza(data reflect.Value)
convertToStanza(rec) == UnmarshalJSON(ZeroStanza, JSONMarshalStruct(rec))

---------------------------------------------------------------------------
(* Stanza.WriteTo.                                                         *)

StartsWith(s, pre) == Len(s) >= Len(pre) /\ SubSeq(s, 1, Len(pre)) = pre

\* strings.Replace(s, old, new, -1): the matches from left to right, those
\* that overlap an earlier match left alone.
RECURSIVE ReplaceAll(_, _, _)
ReplaceAll(s, old, new) ==
    IF s = Str0 THEN Str0
    ELSE IF StartsWith(s, old)
         THEN new \o ReplaceAll(SubSeq(s, Len(old) + 1, Len(s)), old, new)
         ELSE <<Head(s)>> \o ReplaceAll(Tail(s), old, new)

\* strings.TrimRight(s, "\n ")
RECURSIVE TrimRightNLSpace(_)
TrimRightNLSpace(s) ==
    IF s /= Str0 /\ s[Len(s)] \in {NL, " "}
    THEN TrimRightNLSpace(SubSeq(s, 1, Len(s) - 1))
    ELSE s

\* The value of a field as WriteTo writes it: continuation lines indented,
\* empty ones dotted, no trailing newline or space.
FoldValue(value) ==
    TrimRightNLSpace(
        ReplaceAll(ReplaceAll(value, <<NL>>, <<NL, " ">>),
                   <<NL, " ", NL>>, <<NL, " ", ".", NL>>))

\* fmt.Sprintf("%s: %s\n", key, value)
WriteField(key, value) == key \o <<":", " ">> \o FoldValue(value) \o <<NL>>

\* func (p *Stanza) WriteTo(w io.Writer): a line per key of Order.
RECURSIVE WriteKeys(_, _)
WriteKeys(p, order) ==
    IF order = << >> THEN Str0
    ELSE WriteField(Head(order), MapGet(p.Values, Head(order)))
         \o WriteKeys(p, Tail(order))

WriteTo(p) == WriteKeys(p, p.Order)

---------------------------------------------------------------------------
(* Decoder.Decode and Encoder.Encode.                                      *)

\* What a Decode call did: kind "ok" (nil), "eof", "error" or "panic",
\* the reader it leaves, and the records it produced.
Decoded(kind, in, recs) == [kind |-> kind, input |-> in, recs |-> recs]

\* Decode(v) with v a pointer to a record: one Next, whose result is r,
\* then decodeStruct.
DecodeNext(r, target) ==
    IF r.result.kind /= "stanza"
    THEN Decoded(r.result.kind, r.input, << >>)
    ELSE Decoded("ok", r.input, <<decodeStruct(r.result.stanza, target)>>)

DecodeRecord(in, target) == DecodeNext(Next(in), target)

\* A decodeSlice that stops after the first stanza.
decodeSliceOnlyFirst(in, recs) ==
    DecodeNext(Next(in), ZeroRecord)

\* func (d *Decoder) decodeSlice(into reflect.Value): a new record per
\* stanza, appended to the slice as it is decoded, until io.EOF.
RECURSIVE decodeSlice(_, _)
RECURSIVE SliceNext(_, _)
decodeSlice(in, recs) == SliceNext(Next(in), recs)

\* The body of the loop of decodeSlice, r the result of its Next.
SliceNext(r, recs) ==
    CASE r.result.kind = "eof" -> Decoded("ok", r.input, recs)
      [] r.result.kind = "stanza" ->
           decodeSlice(r.input,
                       Append(recs, decodeStruct(r.result.stanza, ZeroRecord)))
      [] OTHER -> Decoded(r.result.kind, r.input, recs)

\* The Encoder: what it has written, and alreadyWritten.
Encoder(w, already) == [out |-> w, alreadyWritten |-> already]

\* An encodeStruct that writes no separator between stanzas.
encodeStructNoSeparator(e, rec) ==
    Encoder(e.out \o WriteTo(convertToStanza(rec)), TRUE)

\* func (e *Encoder) encodeStruct(data reflect.Value)
encodeStruct(e, rec) ==
    Encoder(e.out \o (IF e.alreadyWritten THEN <<NL>> ELSE Str0)
                  \o WriteTo(convertToStanza(rec)),
            TRUE)

\* func (e *Encoder) encodeSlice(data reflect.Value)
RECURSIVE encodeSlice(_, _)
encodeSlice(e, recs) ==
    IF recs = << >> THEN e
    ELSE encodeSlice(encodeStruct(e, Head(recs)), Tail(recs))

---------------------------------------------------------------------------
(* The codec: a Decoder over a document and an Encoder, driven by a caller *)
(* who decodes records and encodes the records it has decoded, in order.   *)

CodecLines ==
    { Str0,
      <<"A", ":", " ", "x">>,
      <<"B", ":", " ", "y">>,
      <<"a", ":", " ", "y">>,
      <<"C", ":", " ", "x">>,
      <<"A", ":">> }

CodecDocs == {JoinLines(ls) : ls \in SeqsUpTo(CodecLines, MaxLines)}

\* The last call: Decode into a record ("struct") or a slice ("slice"),
\* or Encode of a record ("encode") or a slice ("encodeSlice"); what it
\* returned, and how many records had been decoded when it was made.
Call(call, kind, before) == [call |-> call, kind |-> kind, before |-> before]

\* A decoded record, and whether it was decoded into a new target.
Records(recs, fresh) == [i \in 1..Len(recs) |-> [rec |-> recs[i], fresh |-> fresh]]

InitCodec ==
    /\ doc \in CodecDocs
    /\ input = doc
    /\ paragraph = ZeroStanza
    /\ lastKey = Str0
    /\ pc = "codec"
    /\ results = << >>
    /\ stream = PlainStream(doc)
    /\ keyring = NilKeyring
    /\ signer = Nil
    /\ CodecIdle
    /\ NoCall

\* func (d *Decoder) Decode(v any), v a pointer to a struct.
DecodeInto(target, fresh) ==
    \E d \in {DecodeRecord(input, target)} :
       /\ input' = d.input
       /\ records' = records \o Records(d.recs, fresh)
       /\ results' = <<Call("struct", d.kind, Len(records))>>
       /\ UNCHANGED <<doc, paragraph, lastKey, pc, openVars, callVars,
                      encoded, out, alreadyWritten>>

\* Decode into a new record.
DecodeStruct ==
    /\ pc = "codec"
    /\ DecodeInto(ZeroRecord, TRUE)

\* Decode into the record the previous call decoded.
DecodeStructAgain ==
    /\ pc = "codec"
    /\ records /= << >>
    /\ DecodeInto(records[Len(records)].rec, FALSE)

\* Decode(v), v a pointer to an empty slice of structs.
DecodeSlice ==
    /\ pc = "codec"
    /\ \E d \in {decodeSlice(input, << >>)} :
          /\ input' = d.input
          /\ records' = records \o Records(d.recs, TRUE)
          /\ results' = <<Call("slice", d.kind, Len(records))>>
    /\ UNCHANGED <<doc, paragraph, lastKey, pc, openVars, callVars,
                   encoded, out, alreadyWritten>>

\* func (e *Encoder) Encode(incoming): the next decoded record.
EncodeStruct ==
    /\ pc = "codec"
    /\ encoded < Len(records)
    /\ LET e == encodeStruct(Encoder(out, alreadyWritten), records[encoded + 1].rec)
       IN /\ out' = e.out
          /\ alreadyWritten' = e.alreadyWritten
    /\ encoded' = encoded + 1
    /\ results' = <<Call("encode", "ok", Len(records))>>
    /\ UNCHANGED <<doc, input, paragraph, lastKey, pc, openVars, callVars,
                   records>>

\* Encode(incoming): the slice of the decoded records not yet encoded.
EncodeSlice ==
    /\ pc = "codec"
    /\ encoded < Len(records)
    /\ LET rest == [i \in 1..(Len(records) - encoded) |-> records[encoded + i].rec]
           e == encodeSlice(Encoder(out, alreadyWritten), rest)
       IN /\ out' = e.out
          /\ alreadyWritten' = e.alreadyWritten
    /\ encoded' = Len(records)
    /\ results' = <<Call("encodeSlice", "ok", Len(records))>>
    /\ UNCHANGED <<doc, input, paragraph, lastKey, pc, openVars, callVars,
                   records>>

NextCodec ==
    \/ DecodeStruct
    \/ DecodeStructAgain
    \/ DecodeSlice
    \/ EncodeStruct
    \/ EncodeSlice

SpecCodec == InitCodec /\ [][NextCodec]_vars

---------------------------------------------------------------------------
(* Claims about the codec.                                                 *)

\* The stanzas of the document, as All() yields them.
DocStanzas ==
    LET all == AllCalls(doc, << >>)
    IN [i \in 1..(Len(all) - 1) |-> all[i].stanza]

\* The document is in stanza form: reading it ends with io.EOF.
WellFormedDoc ==
    LET all == AllCalls(doc, << >>) IN all[Len(all)].kind = "eof"

LastCall == results[1]

\* C10: on a Decoder over a document of N stanzas, a Decode into a record
\* consumes exactly one stanza: the k-th record decoded is the record of
\* the k-th stanza (decoded over what its target held), a call made while
\* stanzas remain succeeds with one more record, and a call made when none
\* remain returns an error and no record.  A Decode into a slice succeeds,
\* appends one new record per remaining stanza in document order, and
\* leaves the reader exhausted.
C10_DecodeConsumesOneStanza ==
    (pc = "codec" /\ WellFormedDoc) =>
        LET N == Len(DocStanzas)
        IN /\ Len(records) <= N
           /\ \A k \in 1..Len(records) :
                records[k].rec =
                    decodeStruct(DocStanzas[k],
                                 IF records[k].fresh THEN ZeroRecord
                                 ELSE records[k - 1].rec)
           /\ (results /= << >> /\ LastCall.call = "struct") =>
                IF LastCall.before < N
                THEN LastCall.kind = "ok" /\ Len(records) = LastCall.before + 1
                ELSE LastCall.kind = "eof" /\ Len(records) = LastCall.before
           /\ (results /= << >> /\ LastCall.call = "slice") =>
                /\ LastCall.kind = "ok"
                /\ Len(records) = N
                /\ \A k \in (LastCall.before + 1)..N : records[k].fresh
                /\ Next(input).result.kind = "eof"

\* A record was decoded on its own, then a slice took the remaining
\* stanza, a different one.
C10_Witness ==
    /\ pc = "codec"
    /\ WellFormedDoc
    /\ results /= << >>
    /\ LastCall.call = "slice"
    /\ LastCall.before = 1
    /\ Len(records) = 2
    /\ records[1].rec /= records[2].rec

\* The lines of the document (it ends with a newline).
DocLines == LinesOf(doc)

\* No stray blank lines: none at the start or the end, no two in a row.
NoStrayBlankLines ==
    LET ls == DocLines
    IN /\ ls /= << >> => (ls[1] /= Str0 /\ ls[Len(ls)] /= Str0)
       /\ \A i \in 1..(Len(ls) - 1) : ~(ls[i] = Str0 /\ ls[i + 1] = Str0)

\* Every line is empty or a single-line field.
SingleLineFields ==
    \A i \in 1..Len(DocLines) :
        DocLines[i] = Str0 \/ IsFieldLine(DocLines[i])

\* The field of the record a line is the canonical form of: `Name: value`
\* with the exact name of the field and a non-empty value with no space
\* around it; 0 if it is the canonical form of none.
CanonicalField(l) ==
    LET at == IndexOf(l, ":")
        key == SubSeq(l, 1, at - 1)
        value == SubSeq(l, at + 2, Len(l))
        named == {i \in 1..Len(RecordFields) : RecordFields[i] = key}
    IN IF at = 0 \/ named = {} THEN 0
       ELSE IF /\ Len(l) >= at + 2
               /\ l[at + 1] = " "
               /\ value = TrimSpace(value)
            THEN CHOOSE i \in named : TRUE
            ELSE 0

\* Every stanza has the fields of the record, in declaration order, none
\* twice, each in canonical form.
FieldsOfRecordInOrder ==
    LET ls == DocLines
    IN /\ \A i \in 1..Len(ls) : ls[i] /= Str0 => CanonicalField(ls[i]) /= 0
       /\ \A i \in 1..(Len(ls) - 1) :
            (ls[i] /= Str0 /\ ls[i + 1] /= Str0)
                => CanonicalField(ls[i]) < CanonicalField(ls[i + 1])

\* Every stanza was decoded into a new record, and every record encoded.
RoundTripDone ==
    /\ pc = "codec"
    /\ WellFormedDoc
    /\ Len(records) = Len(DocStanzas)
    /\ \A k \in 1..Len(records) : records[k].fresh
    /\ encoded = Len(records)

---------------------------------------------------------------------------
(* An Encoder given records of the caller's making, one Encode call after  *)
(* another on the same writer.                                             *)

MaxEncoded == 3

\* The values a field of a record is given.
FieldValues == {Str0, <<"x">>, <<"y">>, <<"x", NL, "y">>}

RecordValues == [1..Len(RecordFields) -> FieldValues]

InitEncoder ==
    /\ doc = Str0
    /\ input = Str0
    /\ paragraph = ZeroStanza
    /\ lastKey = Str0
    /\ pc = "encoder"
    /\ results = << >>
    /\ stream = PlainStream(Str0)
    /\ keyring = NilKeyring
    /\ signer = Nil
    /\ CodecIdle
    /\ NoCall

\* Encode(record): `records` keeps the records encoded so far.
EncodeRecord ==
    /\ pc = "encoder"
    /\ Len(records) < MaxEncoded
    /\ \E rec \in RecordValues :
        \E e \in {encodeStruct(Encoder(out, alreadyWritten), rec)} :
            /\ out' = e.out
            /\ alreadyWritten' = e.alreadyWritten
            /\ records' = records \o Records(<<rec>>, TRUE)
    /\ encoded' = encoded + 1
    /\ results' = <<Call("encode", "ok", Len(records))>>
    /\ UNCHANGED <<doc, input, paragraph, lastKey, pc, openVars, callVars>>

\* Encode(list of records), the empty list included.
EncodeList ==
    /\ pc = "encoder"
    /\ \E recs \in SeqsUpTo(RecordValues, MaxEncoded - 1) :
        /\ Len(records) + Len(recs) <= MaxEncoded
        /\ \E e \in {encodeSlice(Encoder(out, alreadyWritten), recs)} :
            /\ out' = e.out
            /\ alreadyWritten' = e.alreadyWritten
        /\ records' = records \o Records(recs, TRUE)
        /\ encoded' = encoded + Len(recs)
    /\ results' = <<Call("encodeSlice", "ok", Len(records))>>
    /\ UNCHANGED <<doc, input, paragraph, lastKey, pc, openVars, callVars>>

NextEncoder ==
    \/ EncodeRecord
    \/ EncodeList

SpecEncoder == InitEncoder /\ [][NextEncoder]_vars

\* The stanza text of each record encoded so far.
EncodedTexts == [i \in 1..Len(records) |-> WriteTo(convertToStanza(records[i].rec))]

\* The texts that are stanzas (have a field), one empty line between two.
RECURSIVE JoinStanzas(_, _)
JoinStanzas(texts, first) ==
    IF texts = << >> THEN Str0
    ELSE IF Head(texts) = Str0 THEN JoinStanzas(Tail(texts), first)
    ELSE (IF first THEN Str0 ELSE <<NL>>) \o Head(texts)
         \o JoinStanzas(Tail(texts), FALSE)

\* C11: after any sequence of Encode calls on one Encoder the output is the
\* encoded stanzas in call order, exactly one empty line between two
\* consecutive stanzas, none before the first and none after the last.
C11_OneEmptyLineBetween ==
    pc = "encoder" => out = JoinStanzas(EncodedTexts, TRUE)

\* The place of a key in an Order that has it.
PlaceOf(order, key) == CHOOSE i \in 1..Len(order) : order[i] = key

\* C12: the field codec keeps key order: a stanza decoded into a new record
\* and that record encoded again has its fields written in the relative
\* order they had in the stanza.
C12_KeyOrderKept ==
    (pc = "codec" /\ WellFormedDoc) =>
        \A k \in 1..encoded :
            records[k].fresh =>
                LET was == DocStanzas[k].Order
                    now == convertToStanza(records[k].rec).Order
                IN \A a, b \in 1..Len(now) :
                    (a < b /\ now[a] \in Range(was) /\ now[b] \in Range(was))
                        => PlaceOf(was, now[a]) < PlaceOf(was, now[b])

---------------------------------------------------------------------------
(* Package version: Parse, String and Compare of dpkg version strings.     *)

Digits == <<"0", "1", "2", "3", "4", "5", "6", "7", "8", "9">>

\* The code of a character (of those the model's texts are made of).
Code(c) ==
    CASE c \in Range(Digits) -> 47 + PlaceOf(Digits, c)
      [] c = " " -> 32
      [] c = "+" -> 43
      [] c = "-" -> 45
      [] c = "." -> 46
      [] c = ":" -> 58
      [] c = "A" -> 65
      [] c = "a" -> 97
      [] c = "b" -> 98
      [] c = "~" -> 126
      [] c = "!" -> 33
      [] c = "$" -> 36
      [] c = "(" -> 40
      [] c = ")" -> 41
      [] c = "," -> 44
      [] c = "<" -> 60
      [] c = "=" -> 61
      [] c = ">" -> 62
      [] c = "[" -> 91
      [] c = "]" -> 93
      [] c = "s" -> 115
      [] c = "t" -> 116
      [] c = "x" -> 120
      [] c = "{" -> 123
      [] c = "|" -> 124
      [] c = "}" -> 125

cisdigit(c) == Code(c) >= 48 /\ Code(c) <= 57

cisalpha(c) ==
    (Code(c) >= 97 /\ Code(c) <= 122) \/ (Code(c) >= 65 /\ Code(c) <= 90)

\* func order(r rune) int
order(c) ==
    IF cisdigit(c) THEN 0
    ELSE IF cisalpha(c) THEN Code(c)
    ELSE IF c = "~" THEN -1
    ELSE Code(c) + 256

\* The number a string of digits stands for.
RECURSIVE NumberOf(_)
NumberOf(s) ==
    IF s = Str0 THEN 0
    ELSE 10 * NumberOf(SubSeq(s, 1, Len(s) - 1)) + (Code(s[Len(s)]) - 48)

\* fmt.Sprintf("%d", n)
RECURSIVE Decimal(_)
Decimal(n) ==
    IF n < 10 THEN <<Digits[n + 1]>>
    ELSE Decimal(n \div 10) \o <<Digits[(n % 10) + 1]>>

\* strconv.ParseInt(s, 10, 64), for the lengths of the model (no digit
\* string of it is out of the range of int64): an optional sign, then one
\* digit at least and digits only.
ParseInt(s) ==
    LET signed == s /= Str0 /\ s[1] \in {"+", "-"}
        digits == IF signed THEN Tail(s) ELSE s
    IN IF digits = Str0 \/ \E i \in 1..Len(digits) : ~cisdigit(digits[i])
       THEN [err |-> "syntax", n |-> 0]
       ELSE [err |-> Nil,
             n |-> IF signed /\ s[1] = "-" THEN 0 - NumberOf(digits)
                   ELSE NumberOf(digits)]

\* strings.LastIndex(s, c), counted from 1; 0 when c is not in s.
LastIndexOf(s, c) ==
    IF \E i \in 1..Len(s) : s[i] = c
    THEN CHOOSE i \in 1..Len(s) : s[i] = c /\ \A j \in (i + 1)..Len(s) : s[j] /= c
    ELSE 0

\* type Version struct { Epoch uint; Version string; Revision string }
Version(epoch, version, revision) ==
    [Epoch |-> epoch, Version |-> version, Revision |-> revision]

ZeroVersion == Version(0, Str0, Str0)

\* What Parse returns: the Version as far as it was filled in, and the
\* error (Nil when there is none).
Parsed(v, err) == [v |-> v, err |-> err]

\* parseInto from result.Version = trimmed[colon+1:] on, the epoch known.
ParseBody(epoch, body) ==
    LET hyphen == LastIndexOf(body, "-")
        version == IF hyphen = 0 THEN body ELSE SubSeq(body, 1, hyphen - 1)
        revision == IF hyphen = 0 THEN Str0 ELSE SubSeq(body, hyphen + 1, Len(body))
    IN IF body = Str0
       THEN Parsed(Version(epoch, Str0, Str0), "nothing after colon in version number")
       ELSE IF Len(version) > 0 /\ ~cisdigit(version[1])
       THEN Parsed(Version(epoch, version, revision),
                   "version number does not start with digit")
       ELSE IF \E i \in 1..Len(version) :
                   /\ ~cisdigit(version[i])
                   /\ ~cisalpha(version[i])
                   /\ version[i] \notin {".", "-", "+", "~", ":"}
       THEN Parsed(Version(epoch, version, revision),
                   "invalid character in version number")
       ELSE IF \E i \in 1..Len(revision) :
                   /\ ~cisdigit(revision[i])
                   /\ ~cisalpha(revision[i])
                   /\ revision[i] \notin {".", "+", "~"}
       THEN Parsed(Version(epoch, version, revision),
                   "invalid character in revision number")
       ELSE Parsed(Version(epoch, version, revision), Nil)

\* parseInto on the trimmed text.
ParseTrimmed(trimmed) ==
    LET colon == IndexOf(trimmed, ":")
        epoch == ParseInt(SubSeq(trimmed, 1, colon - 1))
    IN IF trimmed = Str0
       THEN Parsed(ZeroVersion, "version string is empty")
       ELSE IF \E i \in 1..Len(trimmed) : IsSpace(trimmed[i])
       THEN Parsed(ZeroVersion, "version string has embedded spaces")
       ELSE IF colon = 0 THEN ParseBody(0, trimmed)
       ELSE IF epoch.err /= Nil THEN Parsed(ZeroVersion, "epoch")
       ELSE IF epoch.n < 0
       THEN Parsed(ZeroVersion, "epoch in version is negative")
       ELSE ParseBody(epoch.n, SubSeq(trimmed, colon + 1, Len(trimmed)))

\* func Parse(input string) (Version, error)
Parse(s) == ParseTrimmed(TrimSpace(s))

\* func (v Version) StringWithoutEpoch() string
StringWithoutEpoch(v) ==
    IF Len(v.Revision) > 0 THEN v.Version \o <<"-">> \o v.Revision
    ELSE v.Version

\* func (v Version) String() string
String(v) ==
    IF v.Epoch > 0 THEN Decimal(v.Epoch) \o <<":">> \o StringWithoutEpoch(v)
    ELSE StringWithoutEpoch(v)

\* func (v *Version) IsNative() bool
IsNative(v) == Len(v.Revision) = 0

\* s[i] is a character that is not a digit (i counted from 1).
NonDigitAt(s, i) == i <= Len(s) /\ ~cisdigit(s[i])

\* s[i] is a digit.
DigitAt(s, i) == i <= Len(s) /\ cisdigit(s[i])

\* order of s[i], 0 past the end of s.
OrderAt(s, i) == IF i <= Len(s) THEN order(s[i]) ELSE 0

\* Where a loop of verrevcmp leaves off: returned with rc, or going on
\* from i and j with first_diff.
Returned(rc) == [returned |-> TRUE, rc |-> rc, i |-> 0, j |-> 0, first_diff |-> 0]
GoingOn(i, j, first_diff) ==
    [returned |-> FALSE, rc |-> 0, i |-> i, j |-> j, first_diff |-> first_diff]

\* The first inner loop: while either side is at a non-digit.
RECURSIVE NonDigitLoop(_, _, _, _)
NonDigitLoop(a, b, i, j) ==
    IF NonDigitAt(a, i) \/ NonDigitAt(b, j)
    THEN IF OrderAt(a, i) /= OrderAt(b, j)
         THEN Returned(OrderAt(a, i) - OrderAt(b, j))
         ELSE NonDigitLoop(a, b, i + 1, j + 1)
    ELSE GoingOn(i, j, 0)

\* for i < len(a) && a[i] == '0' { i++ }
RECURSIVE SkipZeros(_, _)
SkipZeros(s, i) ==
    IF i <= Len(s) /\ s[i] = "0" THEN SkipZeros(s, i + 1) ELSE i

\* The loop over the digits both sides have, keeping the first difference.
RECURSIVE DigitLoop(_, _, _, _, _)
DigitLoop(a, b, i, j, first_diff) ==
    IF DigitAt(a, i) /\ DigitAt(b, j)
    THEN DigitLoop(a, b, i + 1, j + 1,
                   IF first_diff = 0 THEN Code(a[i]) - Code(b[j]) ELSE first_diff)
    ELSE GoingOn(i, j, first_diff)

\* The end of the outer loop's body, after the digit loop left off at d.
AfterDigits(a, b, d) ==
    IF DigitAt(a, d.i) THEN Returned(1)
    ELSE IF DigitAt(b, d.j) THEN Returned(-1)
    ELSE IF d.first_diff /= 0 THEN Returned(d.first_diff)
    ELSE d

\* The outer loop's body from the zeros on, the first loop left off at n.
AfterNonDigits(a, b, n) ==
    IF n.returned THEN n
    ELSE AfterDigits(a, b,
                     DigitLoop(a, b, SkipZeros(a, n.i), SkipZeros(b, n.j), 0))

\* A verrevcmp for which two strings that differ are never equal, the
\* first the greater.
verrevcmpUnequalIsGreater(a, b) == IF a = b THEN 0 ELSE 1

\* A verrevcmp that compares digit runs digit by digit, zeros included.
RECURSIVE verrevcmpKeepsZeros(_, _)
verrevcmpKeepsZeros(a, b) ==
    IF a = Str0 \/ b = Str0 THEN Len(a) - Len(b)
    ELSE IF order(a[1]) /= order(b[1]) \/ Code(a[1]) /= Code(b[1])
    THEN (IF order(a[1]) /= order(b[1]) THEN order(a[1]) - order(b[1])
          ELSE Code(a[1]) - Code(b[1]))
    ELSE verrevcmpKeepsZeros(Tail(a), Tail(b))

\* for i < len(a) || j < len(b) { ... }; return 0
RECURSIVE OuterLoop(_, _, _, _)
RECURSIVE OuterNext(_, _, _)
OuterLoop(a, b, i, j) ==
    IF i <= Len(a) \/ j <= Len(b)
    THEN OuterNext(a, b, AfterNonDigits(a, b, NonDigitLoop(a, b, i, j)))
    ELSE 0

OuterNext(a, b, s) ==
    IF s.returned THEN s.rc ELSE OuterLoop(a, b, s.i, s.j)

\* func verrevcmp(a string, b string) int
verrevcmp(a, b) == OuterLoop(a, b, 1, 1)

\* A Compare that ignores the epochs.
CompareNoEpoch(a, b) ==
    IF verrevcmp(a.Version, b.Version) /= 0
    THEN verrevcmp(a.Version, b.Version)
    ELSE verrevcmp(a.Revision, b.Revision)

\* func (a Version) Compare(b Version) int
Compare(a, b) ==
    IF a.Epoch > b.Epoch THEN 1
    ELSE IF a.Epoch < b.Epoch THEN -1
    ELSE IF verrevcmp(a.Version, b.Version) /= 0
    THEN verrevcmp(a.Version, b.Version)
    ELSE verrevcmp(a.Revision, b.Revision)

Sign(n) == IF n > 0 THEN 1 ELSE IF n < 0 THEN -1 ELSE 0

---------------------------------------------------------------------------
(* Compare on three versions, every pair of them compared.                 *)

MaxEpoch == 1

\* Upstream versions and revisions to compare, the empty one included.
Fragments ==
    { Str0, <<"0">>, <<"0", "0">>, <<"1">>, <<"0", "1">>, <<"1", "0">>,
      <<"1", "a">>, <<"1", "b">>, <<"1", "A">>, <<"1", "~">>, <<"1", ".">>,
      <<"1", "+">>, <<"1", "a", "0">>, <<"1", "a", "1">>, <<"~">>, <<"a">> }

Revisions == {Str0, <<"0">>, <<"1">>, <<"~">>}

Versions ==
    {Version(0, f, Str0) : f \in Fragments}
    \cup {Version(e, f, r) : e \in 0..MaxEpoch, f \in {<<"1">>, <<"1", "a">>},
                             r \in Revisions}

InitCompare ==
    /\ doc = Str0
    /\ input = Str0
    /\ paragraph = ZeroStanza
    /\ lastKey = Str0
    /\ pc = "compare"
    /\ results = << >>
    /\ stream = PlainStream(Str0)
    /\ keyring = NilKeyring
    /\ signer = Nil
    /\ CodecIdle
    /\ args \in Versions \X Versions \X Versions
    /\ ret = << >>

\* a.Compare(b) for every pair of the three versions.
CompareAll ==
    /\ pc = "compare"
    /\ ret = << >>
    /\ ret' = [i \in 1..3 |-> [j \in 1..3 |-> Compare(args[i], args[j])]]
    /\ UNCHANGED <<doc, input, paragraph, lastKey, pc, results, openVars,
                   codecVars, args>>

NextCompare == CompareAll

SpecCompare == InitCompare /\ [][NextCompare]_vars

Compared == pc = "compare" /\ ret /= << >>

\* C14: Compare is a strict weak order: Compare(v, v) = 0, the sign of
\* Compare(a, b) is the opposite of that of Compare(b, a), and both "less
\* than" and "equal" are transitive.
C14_StrictWeakOrder ==
    Compared =>
        /\ \A i \in 1..3 : ret[i][i] = 0
        /\ \A i, j \in 1..3 : Sign(ret[i][j]) = 0 - Sign(ret[j][i])
        /\ (ret[1][2] < 0 /\ ret[2][3] < 0) => ret[1][3] < 0
        /\ (ret[1][2] = 0 /\ ret[2][3] = 0) => ret[1][3] = 0

\* Three different versions in a chain a < b < c, and three that are equal
\* without being the same, have been compared.
C14_Witness ==
    /\ Compared
    /\ \/ ret[1][2] < 0 /\ ret[2][3] < 0 /\ args[1].Epoch = args[3].Epoch
       \/ /\ ret[1][2] = 0 /\ ret[2][3] = 0
          /\ args[1] /= args[2] /\ args[2] /= args[3] /\ args[1] /= args[3]

\* The reference order of the claim.  The rank of the character at the
\* head of a non-digit run: '~', then the end of the run, then the letters
\* by code, then every other character.
RefRank(s, i) ==
    IF i > Len(s) \/ cisdigit(s[i]) THEN 1
    ELSE IF s[i] = "~" THEN 0
    ELSE IF cisalpha(s[i]) THEN 2 + Code(s[i])
    ELSE 258 + Code(s[i])

\* The length of the longest prefix of s made of digits (or of non-digits).
RECURSIVE RunLength(_, _)
RunLength(s, digits) ==
    IF s /= Str0 /\ cisdigit(s[1]) = digits
    THEN 1 + RunLength(Tail(s), digits)
    ELSE 0

\* The ranks of two non-digit runs compared from place i on.
RECURSIVE RefRuns(_, _, _)
RefRuns(x, y, i) ==
    IF i > Len(x) /\ i > Len(y) THEN 0
    ELSE IF RefRank(x, i) /= RefRank(y, i)
    THEN Sign(RefRank(x, i) - RefRank(y, i))
    ELSE RefRuns(x, y, i + 1)

\* Two strings by their alternating non-digit and digit runs.
RECURSIVE RefFragments(_, _)
RefFragments(a, b) ==
    IF a = Str0 /\ b = Str0 THEN 0
    ELSE LET na == RunLength(a, FALSE)
             nb == RunLength(b, FALSE)
             ra == SubSeq(a, na + 1, Len(a))
             rb == SubSeq(b, nb + 1, Len(b))
             da == RunLength(ra, TRUE)
             db == RunLength(rb, TRUE)
             runs == RefRuns(SubSeq(a, 1, na), SubSeq(b, 1, nb), 1)
             numbers == Sign(NumberOf(SubSeq(ra, 1, da)) - NumberOf(SubSeq(rb, 1, db)))
         IN IF runs /= 0 THEN runs
            ELSE IF numbers /= 0 THEN numbers
            ELSE RefFragments(SubSeq(ra, da + 1, Len(ra)), SubSeq(rb, db + 1, Len(rb)))

RefCompare(a, b) ==
    IF a.Epoch /= b.Epoch THEN Sign(a.Epoch - b.Epoch)
    ELSE IF RefFragments(a.Version, b.Version) /= 0
    THEN RefFragments(a.Version, b.Version)
    ELSE RefFragments(a.Revision, b.Revision)

\* C15: Compare orders two versions as the dpkg reference order does:
\* epochs as numbers first, then the upstream versions, then the revisions,
\* each pair of strings by alternating non-digit and digit runs.
C15_ReferenceOrder ==
    Compared =>
        \A i, j \in 1..3 : Sign(ret[i][j]) = RefCompare(args[i], args[j])

\* Compared: a '~' against the end of the string, a letter against another
\* character, and two numbers that differ only past a leading zero.
C15_Witness ==
    /\ Compared
    /\ args[1] = Version(0, <<"1", "~">>, Str0)
    /\ args[2] = Version(0, <<"1">>, Str0)
    /\ args[3] = Version(0, <<"1", "a">>, Str0)
    /\ ret[1][2] < 0
    /\ ret[2][3] < 0

---------------------------------------------------------------------------
(* Parse on two version texts, then Compare of the two versions, or String *)
(* of the first and Parse of what String gave.                             *)

MaxVersionLen == 5

VersionChars == {"0", "1", "a", ":", "-"}

\* The texts "0", "0:0", "0:0-" and "0:0-0".
ZeroTexts ==
    { <<"0">>, <<"0", ":", "0">>, <<"0", ":", "0", "-">>,
      <<"0", ":", "0", "-", "0">> }

\* A text with the epoch 0 put before it when it has no epoch, and with an
\* empty revision or a revision of zeros put after it when it has none.
ZeroVariants(s) ==
    (IF IndexOf(s, ":") = 0 THEN {<<"0", ":">> \o s} ELSE {})
    \cup (IF IndexOf(s, "-") = 0
          THEN {s \o <<"-">>, s \o <<"-", "0">>, s \o <<"-", "0", "0">>}
          ELSE {})

VersionTexts ==
    SeqsUpTo(VersionChars, MaxVersionLen)
    \cup {<<" ", "1", "-", "1", " ">>, <<"1", " ", "1">>, <<" ">>}

InitVersion ==
    /\ doc = Str0
    /\ input = Str0
    /\ paragraph = ZeroStanza
    /\ lastKey = Str0
    /\ pc = "version"
    /\ results = << >>
    /\ stream = PlainStream(Str0)
    /\ keyring = NilKeyring
    /\ signer = Nil
    /\ CodecIdle
    /\ \E s \in VersionTexts :
        \E t \in {s} \cup ZeroVariants(s)
                     \cup (IF s \in ZeroTexts THEN ZeroTexts ELSE {}) :
            args = <<s, t>>
    /\ ret = << >>

VersionStep(to) ==
    /\ pc' = to
    /\ UNCHANGED <<doc, input, paragraph, lastKey, results, openVars,
                   codecVars, args>>

\* version.Parse of each text.
VersionParse ==
    /\ pc = "version"
    /\ ret' = <<Parse(args[1]), Parse(args[2])>>
    /\ VersionStep("parsed")

\* a.Compare(b) on the two versions, both texts parsed.
VersionCompare ==
    /\ pc = "parsed"
    /\ ret[1].err = Nil
    /\ ret[2].err = Nil
    /\ ret' = Append(ret, Compare(ret[1].v, ret[2].v))
    /\ VersionStep("compared")

\* a.String() on the first version.
VersionString ==
    /\ pc = "parsed"
    /\ ret[1].err = Nil
    /\ ret' = Append(ret, String(ret[1].v))
    /\ VersionStep("printed")

\* version.Parse of what String returned.
VersionReparse ==
    /\ pc = "printed"
    /\ ret' = Append(ret, Parse(ret[3]))
    /\ VersionStep("reparsed")

NextVersion ==
    \/ VersionParse
    \/ VersionCompare
    \/ VersionString
    \/ VersionReparse

SpecVersion == InitVersion /\ [][NextVersion]_vars

\* C16: the versions parsed from "0", "0:0", "0:0-" and "0:0-0" compare
\* equal to each other; an absent epoch equals the epoch 0, and an absent or
\* empty revision equals a revision made of zeros only.
C16_ZeroVersionsEqual ==
    /\ (pc = "parsed" /\ args[1] \in ZeroTexts) => ret[1].err = Nil
    /\ (pc = "compared" /\ args[1] \in ZeroTexts /\ args[2] \in ZeroTexts)
            => ret[3] = 0
    /\ (pc = "compared" /\ args[2] \in ZeroVariants(args[1])) => ret[3] = 0

\* A version with a non-zero upstream version and no revision was compared
\* with the same version with the revision "00".
C16_Witness ==
    /\ pc = "compared"
    /\ args[1] = <<"1", "a">>
    /\ args[2] = <<"1", "a", "-", "0", "0">>
    /\ ret[2].v.Revision = <<"0", "0">>
    /\ ret[3] = 0

\* C17: a Version that Parse returns without an error has an upstream
\* version that is not empty and starts with a digit, and its revision is
\* empty exactly when it is native.
C17_UpstreamStartsWithDigit ==
    (pc = "parsed" /\ ret[1].err = Nil) =>
        /\ ret[1].v.Version /= Str0
        /\ cisdigit(ret[1].v.Version[1])
        /\ (ret[1].v.Revision = Str0) <=> IsNative(ret[1].v)

\* C19: for a text that Parse accepts, Parse of the String of the version
\* succeeds and gives the same epoch, upstream version and revision.
C19_ParseStringParse ==
    pc = "reparsed" => (ret[4].err = Nil /\ ret[4].v = ret[1].v)

---------------------------------------------------------------------------
(* A Decoder over stanzas decoded into a record with a field of a kind     *)
(* that is converted from text: struct { A string; V version.Version;      *)
(* B string }.                                                             *)

TypedFields == << <<"A">>, <<"V">>, <<"B">> >>

TypedKinds == <<"string", "version", "string">>

ZeroTyped == <<Str0, ZeroVersion, Str0>>

\* The field of TypedFields a JSON member name decodes into (0: none).
TypedIndex(name) ==
    LET exact == {i \in 1..Len(TypedFields) : TypedFields[i] = name}
        folded == {i \in 1..Len(TypedFields) : EqualFold(TypedFields[i], name)}
    IN IF exact /= {} THEN MinOf(exact)
       ELSE IF folded /= {} THEN MinOf(folded)
       ELSE 0

\* What json.Unmarshal leaves: the record and the error (Nil: none).
Unmarshaled(rec, err) == [rec |-> rec, err |-> err]

\* One member of the JSON object stored into field i of the record: a
\* string as it is; a Version through UnmarshalText, which assigns what
\* Parse returned, error or not.
StoreMember(rec, i, value) ==
    IF i = 0 THEN Unmarshaled(rec, Nil)
    ELSE IF TypedKinds[i] = "string"
    THEN Unmarshaled([rec EXCEPT ![i] = value], Nil)
    ELSE Unmarshaled([rec EXCEPT ![i] = Parse(value).v], Parse(value).err)

\* json.Unmarshal(jsonData, &record): the members in their order; the
\* error of an UnmarshalText ends the decoding where it occurs.
RECURSIVE UnmarshalTyped(_, _)
RECURSIVE UnmarshalTypedNext(_, _)
UnmarshalTyped(members, rec) ==
    IF members = << >> THEN Unmarshaled(rec, Nil)
    ELSE UnmarshalTypedNext(Tail(members),
                            StoreMember(rec,
                                        TypedIndex(JSONUnquote(Head(members)[1])),
                                        JSONUnquote(Head(members)[2])))

UnmarshalTypedNext(members, u) ==
    IF u.err /= Nil THEN u ELSE UnmarshalTyped(members, u.rec)

\* decodeStruct for this record type.
decodeTyped(stanza, into) == UnmarshalTyped(MarshalJSON(stanza), into)

\* What a Decode call did: its error kind, the reader it leaves, the target
\* record as the call leaves it, and the slice as the call leaves it.
TypedDecoded(kind, in, target, recs) ==
    [kind |-> kind, input |-> in, target |-> target, recs |-> recs]

\* Decode of a record, u what decodeStruct made of the stanza of r.
TypedAfter(r, u) ==
    TypedDecoded(IF u.err = Nil THEN "ok" ELSE "error", r.input, u.rec, << >>)

\* Decode(v), v a pointer to a record holding `target`; r is what Next
\* returned.
TypedDecodeNext(r, target) ==
    IF r.result.kind /= "stanza"
    THEN TypedDecoded(r.result.kind, r.input, target, << >>)
    ELSE TypedAfter(r, decodeTyped(r.result.stanza, target))

\* decodeSlice for this record type.
RECURSIVE typedSlice(_, _)
RECURSIVE typedSliceNext(_, _)
RECURSIVE typedSliceAfter(_, _, _)
typedSlice(in, recs) == typedSliceNext(Next(in), recs)

typedSliceNext(r, recs) ==
    CASE r.result.kind = "eof" -> TypedDecoded("ok", r.input, ZeroTyped, recs)
      [] r.result.kind = "stanza" ->
           typedSliceAfter(r, decodeTyped(r.result.stanza, ZeroTyped), recs)
      [] OTHER -> TypedDecoded(r.result.kind, r.input, ZeroTyped, recs)

typedSliceAfter(r, u, recs) ==
    IF u.err /= Nil THEN TypedDecoded("error", r.input, u.rec, recs)
    ELSE typedSlice(r.input, Append(recs, u.rec))

TypedLines ==
    { Str0,
      <<"A", ":", " ", "x">>,
      <<"V", ":", " ", "1">>,
      <<"V", ":", " ", "a">>,
      <<"B", ":", " ", "y">> }

TypedDocs == {JoinLines(ls) : ls \in SeqsUpTo(TypedLines, MaxLines)}

InitTyped ==
    /\ doc \in TypedDocs
    /\ input = doc
    /\ paragraph = ZeroStanza
    /\ lastKey = Str0
    /\ pc = "typed"
    /\ results = << >>
    /\ stream = PlainStream(doc)
    /\ keyring = NilKeyring
    /\ signer = Nil
    /\ CodecIdle
    /\ NoCall

\* Decode into a new record; ret keeps the record as the call leaves it.
TypedDecodeStruct ==
    /\ pc = "typed"
    /\ \E d \in {TypedDecodeNext(Next(input), ZeroTyped)} :
        /\ input' = d.input
        /\ results' = <<Call("struct", d.kind, Len(records))>>
        /\ ret' = <<d.target>>
        /\ records' = IF d.kind = "ok"
                      THEN records \o Records(<<d.target>>, TRUE)
                      ELSE records
    /\ UNCHANGED <<doc, paragraph, lastKey, pc, openVars, encoded, out,
                   alreadyWritten, args>>

\* Decode into an empty slice of records.
TypedDecodeSlice ==
    /\ pc = "typed"
    /\ \E d \in {typedSlice(input, << >>)} :
        /\ input' = d.input
        /\ results' = <<Call("slice", d.kind, Len(records))>>
        /\ ret' = << >>
        /\ records' = records \o Records(d.recs, TRUE)
    /\ UNCHANGED <<doc, paragraph, lastKey, pc, openVars, encoded, out,
                   alreadyWritten, args>>

NextTyped ==
    \/ TypedDecodeStruct
    \/ TypedDecodeSlice

SpecTyped == InitTyped /\ [][NextTyped]_vars

\* C13: a stanza whose decoding fails yields no partially populated record:
\* after the failing Decode the record it was given holds no value from
\* that stanza, and a slice gets no record for the failing stanza.
C13_NoPartialRecord ==
    (pc = "typed" /\ results /= << >> /\ LastCall.kind = "error") =>
        /\ LastCall.call = "struct" => ret = <<ZeroTyped>>
        /\ Len(records) < Len(DocStanzas)
        /\ \A k \in 1..Len(records) :
                Unmarshaled(records[k].rec, Nil) = decodeTyped(DocStanzas[k], ZeroTyped)

---------------------------------------------------------------------------
(* Architectures (package arch): Parse and String.                         *)

MaxSegments == 4

\* strings.Split(s, <<c>>) for a one-character separator.
RECURSIVE Split(_, _)
Split(s, c) ==
    IF IndexOf(s, c) = 0 THEN <<s>>
    ELSE <<SubSeq(s, 1, IndexOf(s, c) - 1)>>
         \o Split(SubSeq(s, IndexOf(s, c) + 1, Len(s)), c)

\* strings.Join(els, sep)
RECURSIVE Join(_, _)
Join(els, sep) ==
    IF els = << >> THEN Str0
    ELSE IF Len(els) = 1 THEN els[1]
    ELSE els[1] \o sep \o Join(Tail(els), sep)

Arch(abi, os, cpu) == [ABI |-> abi, OS |-> os, CPU |-> cpu]

any == <<"a", "n", "y">>
all == <<"a", "l", "l">>
gnu == <<"g", "n", "u">>
linux == <<"l", "i", "n", "u", "x">>

\* Arch.String: "abi-os-cpu" without the abi and the os that are implied.
ArchString(arch) ==
    Join((IF arch.ABI \notin {any, all, gnu, Str0} THEN <<arch.ABI>> ELSE << >>)
         \o (IF arch.OS \notin {any, all, linux} THEN <<arch.OS>> ELSE << >>)
         \o <<arch.CPU>>, <<"-">>)

\* parseArchInto(into, arch), flavors the segments of arch.
ArchOfFlavors(into, flavors) ==
    CASE Len(flavors) = 1 ->
           IF flavors[1] \in {all, any}
           THEN Parsed(Arch(flavors[1], flavors[1], flavors[1]), Nil)
           ELSE Parsed(Arch(gnu, linux, flavors[1]), Nil)
      [] Len(flavors) = 2 ->
           Parsed([into EXCEPT !.OS = flavors[1], !.CPU = flavors[2]], Nil)
      [] Len(flavors) = 3 ->
           Parsed(Arch(flavors[1], flavors[2], flavors[3]), Nil)
      [] OTHER -> Parsed(into, "invalid arch string")

parseArchInto(into, arch) == ArchOfFlavors(into, Split(arch, "-"))

\* arch.Parse
ArchParse(arch) == parseArchInto(Arch(any, any, any), arch)

---------------------------------------------------------------------------
(* Architecture texts parsed, printed and parsed again.                    *)

ArchWords == {Str0, any, all, gnu, linux, <<"b", "s", "d">>, <<"x">>}

ArchTexts ==
    {Join(ws, <<"-">>) : ws \in SeqsUpTo(ArchWords, MaxSegments) \ {<< >>}}

InitArch ==
    /\ doc = Str0
    /\ input = Str0
    /\ paragraph = ZeroStanza
    /\ lastKey = Str0
    /\ pc = "arch"
    /\ results = << >>
    /\ stream = PlainStream(Str0)
    /\ keyring = NilKeyring
    /\ signer = Nil
    /\ CodecIdle
    /\ args \in {<<s>> : s \in ArchTexts}
    /\ ret = << >>

\* arch.Parse of the text.
ArchParsed ==
    /\ pc = "arch"
    /\ ret' = <<ArchParse(args[1])>>
    /\ VersionStep("arch parsed")

\* String of the architecture parsed.
ArchPrinted ==
    /\ pc = "arch parsed"
    /\ ret[1].err = Nil
    /\ ret' = Append(ret, ArchString(ret[1].v))
    /\ VersionStep("arch printed")

\* arch.Parse of the text printed.
ArchReparsed ==
    /\ pc = "arch printed"
    /\ ret' = Append(ret, ArchParse(ret[2]))
    /\ VersionStep("arch reparsed")

NextArch ==
    \/ ArchParsed
    \/ ArchPrinted
    \/ ArchReparsed

SpecArch == InitArch /\ [][NextArch]_vars

\* C20: for every text arch.Parse accepts, parsing what String prints of
\* the result succeeds and gives the same abi, os and cpu.
C20_ArchParseStringParse ==
    pc = "arch reparsed" => ret[3] = ret[1]

---------------------------------------------------------------------------
(* Dependencies (package dependency): the types and their String.          *)
(* A pointer or a slice that may be nil is a sequence: << >> when nil,     *)
(* <<x>> when it holds x.                                                  *)

Stage(not, name) == [Not |-> not, Name |-> name]

StageSet(stages) == [Stages |-> stages]

ArchSet(not, architectures) == [Not |-> not, Architectures |-> architectures]

VersionRelation(version, operator) == [Version |-> version, Operator |-> operator]

Possibility(name, arch, architectures, stageSets, version, substvar) ==
    [Name |-> name, Arch |-> arch, Architectures |-> architectures,
     StageSets |-> stageSets, Version |-> version, Substvar |-> substvar]

Relation(possibilities) == [Possibilities |-> possibilities]

Dependency(relations) == [Relations |-> relations]

\* Stage.String
StageString(stage) ==
    IF stage.Not THEN <<"!">> \o stage.Name ELSE stage.Name

\* StageSet.String
StageSetString(set) ==
    IF Len(set.Stages) = 0 THEN Str0
    ELSE <<"<">>
         \o Join([i \in 1..Len(set.Stages) |-> StageString(set.Stages[i])], <<" ">>)
         \o <<">">>

\* ArchSet.String
ArchSetString(set) ==
    IF Len(set.Architectures) = 0 THEN Str0
    ELSE <<"[">>
         \o Join([i \in 1..Len(set.Architectures) |->
                    (IF set.Not THEN <<"!">> ELSE Str0)
                    \o ArchString(set.Architectures[i])], <<" ">>)
         \o <<"]">>

\* VersionRelation.String
VersionRelationString(ver) ==
    <<"(">> \o ver.Operator \o <<" ">> \o String(ver.Version) \o <<")">>

\* The stage sets of Possibility.String, each non-empty one after a space.
RECURSIVE StageSetsString(_)
StageSetsString(sets) ==
    IF sets = << >> THEN Str0
    ELSE (IF StageSetString(Head(sets)) /= Str0
          THEN <<" ">> \o StageSetString(Head(sets)) ELSE Str0)
         \o StageSetsString(Tail(sets))

\* Possibility.String with the version relation printed before the
\* architecture-restriction set.
PossibilityStringVersionFirst(pos) ==
    pos.Name
    \o (IF pos.Arch /= << >> THEN <<":">> \o ArchString(pos.Arch[1]) ELSE Str0)
    \o (IF pos.Version /= << >>
        THEN <<" ">> \o VersionRelationString(pos.Version[1]) ELSE Str0)
    \o (IF pos.Architectures /= << >> /\ ArchSetString(pos.Architectures[1]) /= Str0
        THEN <<" ">> \o ArchSetString(pos.Architectures[1]) ELSE Str0)
    \o (IF pos.StageSets /= << >> THEN StageSetsString(pos.StageSets[1]) ELSE Str0)

\* Possibility.String
PossibilityString(pos) ==
    pos.Name
    \o (IF pos.Arch /= << >> THEN <<":">> \o ArchString(pos.Arch[1]) ELSE Str0)
    \o (IF pos.Architectures /= << >> /\ ArchSetString(pos.Architectures[1]) /= Str0
        THEN <<" ">> \o ArchSetString(pos.Architectures[1]) ELSE Str0)
    \o (IF pos.Version /= << >>
        THEN <<" ">> \o VersionRelationString(pos.Version[1]) ELSE Str0)
    \o (IF pos.StageSets /= << >> THEN StageSetsString(pos.StageSets[1]) ELSE Str0)

\* Relation.String
RelationString(rel) ==
    Join([i \in 1..Len(rel.Possibilities) |->
            PossibilityString(rel.Possibilities[i])], <<" ", "|", " ">>)

\* Dependency.String
DependencyString(dep) ==
    Join([i \in 1..Len(dep.Relations) |-> RelationString(dep.Relations[i])],
         <<",", " ">>)

---------------------------------------------------------------------------
(* The dependency parser. The reader is the text not read yet; a parsing   *)
(* function gives the reader it leaves, what it built and its error.       *)

Read(r, val, err) == [r |-> r, val |-> val, err |-> err]

\* RuneReader.DiscardSpace
RECURSIVE DiscardSpace(_)
DiscardSpace(r) ==
    IF r /= << >> /\ IsSpace(r[1]) THEN DiscardSpace(Tail(r)) ELSE r

\* RuneReader.DiscardRune, n times; nothing is discarded at the end.
DiscardRunes(r, n) ==
    IF Len(r) <= n THEN << >> ELSE SubSeq(r, n + 1, Len(r))

\* parsePossibilityStage
RECURSIVE StageLoop(_, _, _)
StageLoop(r, stage, stageSet) ==
    IF r = << >> THEN Read(r, stageSet, "reached EOF before Stage finished")
    ELSE IF r[1] = "!"
    THEN IF stage.Not
         THEN Read(Tail(r), stageSet, "double negation in Stage is not permitted")
         ELSE StageLoop(Tail(r), [stage EXCEPT !.Not = TRUE], stageSet)
    ELSE IF r[1] \in {">", " "}
    THEN Read(r, [stageSet EXCEPT !.Stages = Append(@, stage)], Nil)
    ELSE StageLoop(Tail(r), [stage EXCEPT !.Name = @ \o <<r[1]>>], stageSet)

parsePossibilityStage(r, stageSet) ==
    StageLoop(DiscardSpace(r), Stage(FALSE, Str0), stageSet)

\* parsePossibilityStageSet
RECURSIVE StageSetLoop(_, _, _)
RECURSIVE StageSetAfter(_, _)
StageSetLoop(r, stageSet, possi) ==
    IF r = << >> THEN Read(r, possi, "reached EOF before StageSet finished")
    ELSE IF r[1] = ">"
    THEN Read(Tail(r),
              [possi EXCEPT !.StageSets = <<Append(@[1], stageSet)>>], Nil)
    ELSE StageSetAfter(parsePossibilityStage(r, stageSet), possi)

StageSetAfter(st, possi) ==
    IF st.err /= Nil THEN Read(st.r, possi, st.err)
    ELSE StageSetLoop(st.r, st.val, possi)

parsePossibilityStageSet(r, possi) ==
    StageSetLoop(DiscardRunes(DiscardSpace(r), 1), StageSet(<< >>), possi)

\* parsePossibilityArch
ArchAppend(r, p, possi) ==
    IF p.err /= Nil THEN Read(r, possi, p.err)
    ELSE Read(r, [possi EXCEPT !.Architectures =
                        <<[@[1] EXCEPT !.Architectures = Append(@, p.v)]>>], Nil)

RECURSIVE ArchNameLoop(_, _, _)
ArchNameLoop(r, name, possi) ==
    IF r = << >> THEN Read(r, possi, "reached EOF before Arch list finished")
    ELSE IF r[1] = "!" THEN Read(r, possi, "you can only negate whole blocks")
    ELSE IF r[1] \in {"]", " "} THEN ArchAppend(r, ArchParse(name), possi)
    ELSE ArchNameLoop(Tail(r), name \o <<r[1]>>, possi)

ArchNegated(r, hasNot, possi) ==
    IF Len(possi.Architectures[1].Architectures) = 0
    THEN ArchNameLoop(r, Str0,
                      [possi EXCEPT !.Architectures = <<[@[1] EXCEPT !.Not = hasNot]>>])
    ELSE IF possi.Architectures[1].Not /= hasNot
    THEN Read(r, possi, "cannot mix negated and non-negated architectures")
    ELSE ArchNameLoop(r, Str0, possi)

ArchEntry(r, possi) ==
    IF r = << >> THEN Read(r, possi, "EOF")
    ELSE ArchNegated(IF r[1] = "!" THEN Tail(r) ELSE r, r[1] = "!", possi)

parsePossibilityArch(r, possi) == ArchEntry(DiscardSpace(r), possi)

\* parsePossibilityArchs
RECURSIVE ArchsLoop(_, _)
RECURSIVE ArchsAfter(_)
ArchsLoop(r, possi) ==
    IF r = << >> THEN Read(r, possi, "reached EOF before Arch list finished")
    ELSE IF r[1] = "]" THEN Read(Tail(r), possi, Nil)
    ELSE ArchsAfter(parsePossibilityArch(r, possi))

ArchsAfter(st) == IF st.err /= Nil THEN st ELSE ArchsLoop(st.r, st.val)

parsePossibilityArchs(r, possi) ==
    ArchsLoop(DiscardRunes(DiscardSpace(r), 1), possi)

Operators == { <<">", "=">>, <<"<", "=">>, <<"<", "<">>, <<">", ">">> }

\* parsePossibilityOperator, the spaces before it discarded.
OperatorAt(r) ==
    IF r = << >> THEN Read(r, Str0, "reached EOF before Operator finished")
    ELSE IF r[1] = "=" THEN Read(Tail(r), <<"=">>, Nil)
    ELSE IF Len(r) < 2 THEN Read(<< >>, Str0, "reached EOF before Operator finished")
    ELSE IF SubSeq(r, 1, 2) \in Operators
    THEN Read(DiscardRunes(r, 2), SubSeq(r, 1, 2), Nil)
    ELSE Read(DiscardRunes(r, 2), Str0,
              "unknown Operator in Possibility Version modifier")

parsePossibilityOperator(r) == OperatorAt(DiscardSpace(r))

\* parsePossibilityNumber; the version of the relation is what
\* UnmarshalText leaves.
NumberAt(r, p, operator) == Read(r, VersionRelation(p.v, operator), p.err)

RECURSIVE NumberLoop(_, _, _)
NumberLoop(r, versionStr, operator) ==
    IF r = << >>
    THEN Read(r, VersionRelation(ZeroVersion, operator),
              "reached EOF before Number finished")
    ELSE IF r[1] = ")" THEN NumberAt(r, Parse(versionStr), operator)
    ELSE NumberLoop(Tail(r), versionStr \o <<r[1]>>, operator)

parsePossibilityNumber(r, operator) == NumberLoop(DiscardSpace(r), Str0, operator)

\* A parsePossibilityVersion that sets a version relation and reads nothing.
parsePossibilityVersionReadsNothing(r, possi) ==
    Read(r, [possi EXCEPT !.Version = <<VersionRelation(ZeroVersion, <<"=">>)>>], Nil)

\* parsePossibilityVersion
VersionAfterNumber(n, possi) ==
    IF n.err /= Nil THEN Read(n.r, possi, n.err)
    ELSE Read(DiscardRunes(n.r, 1), [possi EXCEPT !.Version = <<n.val>>], Nil)

VersionAfterOperator(op, possi) ==
    IF op.err /= Nil THEN Read(op.r, possi, op.err)
    ELSE VersionAfterNumber(parsePossibilityNumber(op.r, op.val), possi)

parsePossibilityVersion(r, possi) ==
    VersionAfterOperator(parsePossibilityOperator(DiscardRunes(DiscardSpace(r), 1)),
                         possi)

\* parsePossibilityControllers
RECURSIVE parsePossibilityControllers(_, _)
RECURSIVE ControllersAt(_, _)
RECURSIVE ControllersAfter(_)
parsePossibilityControllers(r, possi) == ControllersAt(DiscardSpace(r), possi)

ControllersAt(r, possi) ==
    IF r = << >> THEN Read(r, possi, Nil)
    ELSE CASE r[1] \in {",", "|"} -> Read(r, possi, Nil)
           [] r[1] = "(" ->
                IF possi.Version /= << >>
                THEN Read(r, possi, "only one Version relation per Possibility")
                ELSE ControllersAfter(parsePossibilityVersion(r, possi))
           [] r[1] = "[" ->
                IF Len(possi.Architectures[1].Architectures) /= 0
                THEN Read(r, possi, "only one Arch relation per Possibility")
                ELSE ControllersAfter(parsePossibilityArchs(r, possi))
           [] r[1] = "<" -> ControllersAfter(parsePossibilityStageSet(r, possi))
           [] OTHER -> Read(r, possi, "trailing garbage in Possibility")

ControllersAfter(st) ==
    IF st.err /= Nil THEN st ELSE parsePossibilityControllers(st.r, st.val)

\* parseMultiarch
MultiarchDone(r, p, possi) ==
    IF p.err /= Nil THEN Read(r, possi, p.err)
    ELSE Read(r, [possi EXCEPT !.Arch = <<p.v>>], Nil)

RECURSIVE MultiarchLoop(_, _, _)
MultiarchLoop(r, name, possi) ==
    IF r = << >> \/ r[1] \in {",", "|", " ", "(", "[", "<"}
    THEN MultiarchDone(r, ArchParse(name), possi)
    ELSE MultiarchLoop(Tail(r), name \o <<r[1]>>, possi)

parseMultiarch(r, possi) == MultiarchLoop(r, Str0, possi)

\* parseSubstvar
RECURSIVE SubstvarLoop(_, _, _)
SubstvarLoop(r, name, relation) ==
    IF r = << >> THEN Read(r, relation, "reached EOF before Substvar finished")
    ELSE IF r[1] = "}"
    THEN Read(Tail(r),
              [relation EXCEPT !.Possibilities =
                 Append(@, Possibility(name, << >>, << >>, << >>, << >>, TRUE))],
              Nil)
    ELSE SubstvarLoop(Tail(r), name \o <<r[1]>>, relation)

parseSubstvar(r, relation) ==
    SubstvarLoop(DiscardRunes(DiscardSpace(r), 2), Str0, relation)

\* parsePossibility
RECURSIVE PossibilityLoop(_, _)
RECURSIVE PossibilityAfter(_)
PossibilityLoop(r, possi) ==
    IF r = << >> THEN Read(r, possi, Nil)
    ELSE CASE r[1] = ":" -> PossibilityAfter(parseMultiarch(Tail(r), possi))
           [] r[1] \in {" ", "("} ->
                PossibilityAfter(parsePossibilityControllers(r, possi))
           [] r[1] \in {",", "|"} -> Read(r, possi, Nil)
           [] OTHER -> PossibilityLoop(Tail(r), [possi EXCEPT !.Name = @ \o <<r[1]>>])

PossibilityAfter(st) ==
    IF st.err /= Nil THEN st ELSE PossibilityLoop(st.r, st.val)

PossibilityDone(st, relation) ==
    IF st.err /= Nil THEN Read(st.r, relation, st.err)
    ELSE IF st.val.Name = Str0 THEN Read(st.r, relation, Nil)
    ELSE Read(st.r, [relation EXCEPT !.Possibilities = Append(@, st.val)], Nil)

PossibilityAt(r, relation) ==
    IF r = << >> THEN Read(r, relation, "EOF")
    ELSE IF r[1] = "$" THEN parseSubstvar(r, relation)
    ELSE PossibilityDone(
            PossibilityLoop(r, Possibility(Str0, << >>, <<ArchSet(FALSE, << >>)>>,
                                           << << >> >>, << >>, FALSE)),
            relation)

parsePossibility(r, relation) == PossibilityAt(DiscardSpace(r), relation)

\* parseRelation
RECURSIVE RelationLoop(_, _)
RECURSIVE RelationAfter(_)
RelationLoop(r, rel) ==
    IF r = << >> \/ r[1] = "," THEN Read(r, rel, Nil)
    ELSE IF r[1] = "|" THEN RelationLoop(DiscardSpace(Tail(r)), rel)
    ELSE RelationAfter(parsePossibility(r, rel))

RelationAfter(st) == IF st.err /= Nil THEN st ELSE RelationLoop(st.r, st.val)

RelationDone(st, dependency) ==
    IF st.err /= Nil THEN Read(st.r, dependency, st.err)
    ELSE Read(st.r, [dependency EXCEPT !.Relations = Append(@, st.val)], Nil)

parseRelation(r, dependency) ==
    RelationDone(RelationLoop(DiscardSpace(r), Relation(<< >>)), dependency)

\* parseDependency
RECURSIVE DependencyLoop(_, _)
RECURSIVE DependencyAfter(_)
DependencyLoop(r, dependency) ==
    IF r = << >> THEN Parsed(dependency, Nil)
    ELSE IF r[1] = "," THEN DependencyLoop(DiscardSpace(Tail(r)), dependency)
    ELSE DependencyAfter(parseRelation(r, dependency))

DependencyAfter(st) ==
    IF st.err /= Nil THEN Parsed(st.val, st.err) ELSE DependencyLoop(st.r, st.val)

parseDependency(in, dependency) == DependencyLoop(DiscardSpace(in), dependency)

\* dependency.Parse
DependencyParse(in) == parseDependency(in, Dependency(<< >>))

---------------------------------------------------------------------------
(* Dependency texts parsed, printed and parsed again.                      *)

MaxItems == 4

\* What the texts are made of: a name, the separators, a substitution
\* variable, the qualifiers, an empty architecture list, and the openers
\* alone.
DependencyItems ==
    { <<"a">>, <<" ">>, <<",">>, <<"|">>,
      <<"$", "{", "a", "}">>,
      <<":", "x">>,
      <<" ", "(", ">", "=", " ", "1", ")">>,
      <<" ", "[", "!", "x", "]">>,
      <<" ", "[", "]">>,
      <<" ", "<", "!", "s", " ", "t", ">">>,
      <<"$">>, <<"(">> }

DependencyTexts == {Join(is, Str0) : is \in SeqsUpTo(DependencyItems, MaxItems)}

InitDependency ==
    /\ doc = Str0
    /\ input = Str0
    /\ paragraph = ZeroStanza
    /\ lastKey = Str0
    /\ pc = "dependency"
    /\ results = << >>
    /\ stream = PlainStream(Str0)
    /\ keyring = NilKeyring
    /\ signer = Nil
    /\ CodecIdle
    /\ args \in {<<s>> : s \in DependencyTexts}
    /\ ret = << >>

\* dependency.Parse of the text.
DependencyParsed ==
    /\ pc = "dependency"
    /\ ret' = <<DependencyParse(args[1])>>
    /\ VersionStep("dependency parsed")

\* String of the dependency parsed.
DependencyPrinted ==
    /\ pc = "dependency parsed"
    /\ ret[1].err = Nil
    /\ ret' = Append(ret, DependencyString(ret[1].v))
    /\ VersionStep("dependency printed")

\* dependency.Parse of the text printed.
DependencyReparsed ==
    /\ pc = "dependency printed"
    /\ ret' = Append(ret, DependencyParse(ret[2]))
    /\ VersionStep("dependency reparsed")

NextDependency ==
    \/ DependencyParsed
    \/ DependencyPrinted
    \/ DependencyReparsed

SpecDependency == InitDependency /\ [][NextDependency]_vars

\* C18: for every text dependency.Parse accepts, parsing what String prints
\* of the result succeeds and gives a structurally equal Dependency.
C18_DependencyParseStringParse ==
    pc = "dependency reparsed" => ret[3] = ret[1]

---------------------------------------------------------------------------
(* The printed form of a Possibility.                                      *)

\* The parts a Possibility is printed from, each with the separator that
\* precedes it; a part that is absent or empty prints nothing.
QualifierText(pos) ==
    IF pos.Arch = << >> THEN Str0 ELSE <<":">> \o ArchString(pos.Arch[1])

RestrictionText(pos) ==
    IF pos.Architectures = << >> THEN Str0
    ELSE IF pos.Architectures[1].Architectures = << >> THEN Str0
    ELSE <<" ">> \o ArchSetString(pos.Architectures[1])

ConstraintText(pos) ==
    IF pos.Version = << >> THEN Str0
    ELSE <<" ">> \o VersionRelationString(pos.Version[1])

NonEmptyStageSets(pos) ==
    IF pos.StageSets = << >> THEN << >>
    ELSE SelectSeq(pos.StageSets[1], LAMBDA set : set.Stages /= << >>)

StagesText(pos) ==
    IF NonEmptyStageSets(pos) = << >> THEN Str0
    ELSE <<" ">>
         \o Join([i \in 1..Len(NonEmptyStageSets(pos)) |->
                    StageSetString(NonEmptyStageSets(pos)[i])], <<" ">>)

CanonicalPossibility(pos) ==
    pos.Name \o QualifierText(pos) \o RestrictionText(pos)
    \o ConstraintText(pos) \o StagesText(pos)

CanonicalRelation(rel) ==
    Join([i \in 1..Len(rel.Possibilities) |->
            CanonicalPossibility(rel.Possibilities[i])], <<" ", "|", " ">>)

CanonicalDependency(dep) ==
    Join([i \in 1..Len(dep.Relations) |-> CanonicalRelation(dep.Relations[i])],
         <<",", " ">>)

\* C21: a Possibility is printed as its name, then the architecture
\* qualifier, then the architecture-restriction set, then the version
\* relation, then the stage sets in the order they were parsed, whatever
\* order these parts had in the text parsed.
C21_PrintingOrder ==
    pc = "dependency printed" => ret[2] = CanonicalDependency(ret[1].v)

\* A text with the stage set before the version relation before the
\* architecture-restriction set was parsed and printed.
C21_Witness ==
    /\ pc = "dependency printed"
    /\ args[1] = <<"a">> \o <<" ", "<", "!", "s", " ", "t", ">">>
                 \o <<" ", "(", ">", "=", " ", "1", ")">>
                 \o <<" ", "[", "!", "x", "]">>
    /\ ret[2] = <<"a">> \o <<" ", "[", "!", "x", "]">>
                \o <<" ", "(", ">", "=", " ", "1", ")">>
                \o <<" ", "<", "!", "s", " ", "t", ">">>

---------------------------------------------------------------------------
(* Errors of the dependency parser.                                        *)

\* The number of occurrences of the character c in s.
Count(s, c) == Cardinality({i \in 1..Len(s) : s[i] = c})

\* The parts of a text between its ',' and '|': in a text without
\* substitution variables, the text of each Possibility.
Segments(s) ==
    UNION {Range(Split(part, "|")) : part \in Range(Split(s, ","))}

\* C22: dependency.Parse returns an error for every input in which one
\* Possibility has a second '(...)' or a second '[...]', whatever the first
\* one contains.
C22_SecondQualifierRejected ==
    (/\ pc = "dependency parsed"
     /\ Count(args[1], "$") = 0
     /\ \E seg \in Segments(args[1]) :
            Count(seg, "(") >= 2 \/ Count(seg, "[") >= 2)
        => ret[1].err /= Nil

\* C23: a missing separator is a parse error, so in a Relation that
\* dependency.Parse returns every two consecutive Possibilities were
\* separated by '|' in the input: a Relation has at most one Possibility
\* more than the input has '|'.
C23_MissingSeparatorRejected ==
    (pc = "dependency parsed" /\ ret[1].err = Nil) =>
        \A i \in 1..Len(ret[1].v.Relations) :
            Len(ret[1].v.Relations[i].Possibilities) <= Count(args[1], "|") + 1

\* C24: empty possibilities are silently dropped: a text of names, ',' and
\* '|' only is never rejected, and a Dependency that dependency.Parse
\* returns has no Relation without Possibilities and no Possibility with an
\* empty name that is not a substitution variable.
C24_EmptyItemsDropped ==
    pc = "dependency parsed" =>
        /\ (\A i \in 1..Len(args[1]) : args[1][i] \in {"a", ",", "|"})
               => ret[1].err = Nil
        /\ ret[1].err = Nil =>
               \A i \in 1..Len(ret[1].v.Relations) :
                   /\ ret[1].v.Relations[i].Possibilities /= << >>
                   /\ \A j \in 1..Len(ret[1].v.Relations[i].Possibilities) :
                          \/ ret[1].v.Relations[i].Possibilities[j].Name /= Str0
                          \/ ret[1].v.Relations[i].Possibilities[j].Substvar

---------------------------------------------------------------------------
(* Arch.Is on pairs of architectures.                                      *)

\* Arch.IsWildcard
IsWildcard(arch) ==
    IF arch.CPU = all THEN FALSE
    ELSE arch.ABI = any \/ arch.OS = any \/ arch.CPU = any

\* Arch.Is once neither or only `other` is a wildcard.
IsConcrete(arch, other) ==
    /\ (arch.CPU = other.CPU \/ (arch.CPU /= all /\ other.CPU = any))
    /\ (arch.OS = other.OS \/ other.OS = any)
    /\ (arch.ABI = other.ABI \/ other.ABI = any)

\* Arch.Is; a wildcard asked about an architecture that is none asks the
\* other one.
Is(arch, other) ==
    IF IsWildcard(arch) /\ IsWildcard(other) THEN FALSE
    ELSE IF IsWildcard(arch) THEN IsConcrete(other, arch)
    ELSE IsConcrete(arch, other)

IsWords == {any, all, gnu, linux, <<"x">>}

IsArchs == {Arch(abi, os, cpu) : abi \in IsWords, os \in IsWords, cpu \in IsWords}

InitIs ==
    /\ doc = Str0
    /\ input = Str0
    /\ paragraph = ZeroStanza
    /\ lastKey = Str0
    /\ pc = "is"
    /\ results = << >>
    /\ stream = PlainStream(Str0)
    /\ keyring = NilKeyring
    /\ signer = Nil
    /\ CodecIdle
    /\ args \in IsArchs \X IsArchs
    /\ ret = << >>

\* a.Is(&b) and b.Is(&a)
IsBothWays ==
    /\ pc = "is"
    /\ ret' = <<Is(args[1], args[2]), Is(args[2], args[1])>>
    /\ VersionStep("is done")

NextIs == IsBothWays

SpecIs == InitIs /\ [][NextIs]_vars

\* C25: Arch.Is is symmetric: for all architectures a and b,
\* a.Is(b) = b.Is(a); two wildcards never match each other.
C25_IsSymmetric ==
    pc = "is done" =>
        /\ ret[1] = ret[2]
        /\ (IsWildcard(args[1]) /\ IsWildcard(args[2])) => ~ret[1]

---------------------------------------------------------------------------
(* How a Next call ends.                                                   *)

\* C26: for every input each Next call ends by returning a stanza, the
\* exhaustion result or an error value and never crashes, a continuation
\* line before any field line of the stanza included.
C26_NextNeverCrashes ==
    /\ pc \in {"idle", "loop"}
    /\ \A i \in 1..Len(results) : results[i].kind \in {"stanza", "eof", "error"}

---------------------------------------------------------------------------
(* A stanza read by Next, written by WriteTo and read again.               *)

InitWriteRead ==
    /\ doc \in Docs
    /\ input = doc
    /\ paragraph = ZeroStanza
    /\ lastKey = Str0
    /\ pc = "write read"
    /\ results = << >>
    /\ stream = PlainStream(doc)
    /\ keyring = NilKeyring
    /\ signer = Nil
    /\ CodecIdle
    /\ NoCall

\* Next on the document.
ReadStanza ==
    /\ pc = "write read"
    /\ \E r \in {Next(input)} :
        /\ input' = r.input
        /\ results' = <<r.result>>
        /\ pc' = IF r.result.kind = "stanza" THEN "stanza read" ELSE "no stanza"
    /\ UNCHANGED <<doc, paragraph, lastKey, openVars, codecVars, callVars>>

\* WriteTo of the stanza read, into an empty writer.
WriteStanza ==
    /\ pc = "stanza read"
    /\ out' = WriteTo(results[1].stanza)
    /\ pc' = "stanza written"
    /\ UNCHANGED <<doc, input, paragraph, lastKey, results, openVars, records,
                   encoded, alreadyWritten, callVars>>

\* A new reader over what was written, read to its end.
ReadWritten ==
    /\ pc = "stanza written"
    /\ results' = results \o AllCalls(out, << >>)
    /\ pc' = "written read"
    /\ UNCHANGED <<doc, input, paragraph, lastKey, openVars, codecVars, callVars>>

NextWriteRead ==
    \/ ReadStanza
    \/ WriteStanza
    \/ ReadWritten

SpecWriteRead == InitWriteRead /\ [][NextWriteRead]_vars

\* C27: for every stanza S returned by Next, reading back the bytes written
\* by S.WriteTo yields exactly one stanza, with the same key order and the
\* same value for every key.
C27_WriteToInvertsNext ==
    pc = "written read" =>
        /\ Len(results) = 3
        /\ results[2].kind = "stanza"
        /\ results[2].stanza.Order = results[1].stanza.Order
        /\ results[2].stanza.Values = results[1].stanza.Values
        /\ results[3].kind = "eof"

---------------------------------------------------------------------------
(* An Encoder given records whose conversion to a stanza fails.            *)

MaxFailed == 2

\* What convertToStanza returns: the stanza, or the error (Nil: none).
Converted(stanza, err) == [stanza |-> stanza, err |-> err]

\* convertToStanza of a struct { A string; N int }: json.Marshal writes N as
\* a number, and Stanza.UnmarshalJSON decodes every value into a string,
\* which fails on a number.
convertNumbered(rec) ==
    Converted(ZeroStanza, "json: cannot unmarshal number into Go value of type string")

NumberedRecords == {<<a, n>> : a \in FieldValues, n \in 0..1}

\* func (e *Encoder) encodeStruct(data reflect.Value), c what
\* convertToStanza returns for data: the Encoder as the call leaves it and
\* the error returned.
encodeConverted(e, c) ==
    IF c.err /= Nil
    THEN [e |-> Encoder(e.out \o (IF e.alreadyWritten THEN <<NL>> ELSE Str0),
                        e.alreadyWritten),
          err |-> c.err]
    ELSE [e |-> Encoder(e.out \o (IF e.alreadyWritten THEN <<NL>> ELSE Str0)
                              \o WriteTo(c.stanza),
                        TRUE),
          err |-> Nil]

InitFailing ==
    /\ doc = Str0
    /\ input = Str0
    /\ paragraph = ZeroStanza
    /\ lastKey = Str0
    /\ pc = "failing"
    /\ results = << >>
    /\ stream = PlainStream(Str0)
    /\ keyring = NilKeyring
    /\ signer = Nil
    /\ CodecIdle
    /\ NoCall

\* Encode(record) that succeeds; `records` keeps the records encoded.
EncodeGood ==
    /\ pc = "failing"
    /\ Len(records) < MaxEncoded
    /\ \E rec \in RecordValues :
        \E r \in {encodeConverted(Encoder(out, alreadyWritten),
                                  Converted(convertToStanza(rec), Nil))} :
            /\ out' = r.e.out
            /\ alreadyWritten' = r.e.alreadyWritten
            /\ records' = records \o Records(<<rec>>, TRUE)
    /\ encoded' = encoded + 1
    /\ results' = <<Call("encode", "ok", Len(records))>>
    /\ UNCHANGED <<doc, input, paragraph, lastKey, pc, openVars, callVars>>

\* Encode(record) that fails in convertToStanza; `ret` keeps the errors.
EncodeBad ==
    /\ pc = "failing"
    /\ Len(ret) < MaxFailed
    /\ \E rec \in NumberedRecords :
        \E r \in {encodeConverted(Encoder(out, alreadyWritten), convertNumbered(rec))} :
            /\ out' = r.e.out
            /\ alreadyWritten' = r.e.alreadyWritten
            /\ ret' = Append(ret, r.err)
    /\ results' = <<Call("encode", "error", Len(records))>>
    /\ UNCHANGED <<doc, input, paragraph, lastKey, pc, openVars, records,
                   encoded, args>>

NextFailing ==
    \/ EncodeGood
    \/ EncodeBad

SpecFailing == InitFailing /\ [][NextFailing]_vars

\* C28: a failed Encode has no effect: the output and the state of the
\* Encoder are what the successful Encode calls alone would have made.
C28_FailedEncodeHasNoEffect ==
    pc = "failing" =>
        Encoder(out, alreadyWritten)
            = encodeSlice(Encoder(Str0, FALSE),
                          [i \in 1..Len(records) |-> records[i].rec])

---------------------------------------------------------------------------
(* What a keyring guarantees.                                              *)

\* C29: when NewStanzaReader is given a non-empty keyring and returns
\* without error, the content read comes from an envelope whose signature
\* was verified against that keyring and Signer() is not nil; input without
\* an envelope is not accepted.
C29_KeyringMeansVerified ==
    (keyring.entities /= {} /\ pc \notin {"new", "failed"}) =>
        /\ signer /= Nil
        /\ stream.armored
        /\ stream.sigOK
        /\ stream.issuer \in keyring.entities

---------------------------------------------------------------------------
(* The Source parser.                                                      *)

Source(name, version) == [Name |-> name, Version |-> version]

\* parseSource from the version on: the text up to ')' parsed as a version,
\* and nothing allowed after it.
SourceVersionAt(r, p, src) ==
    IF p.err /= Nil THEN Parsed(src, p.err)
    ELSE IF Len(r) > 1
    THEN Parsed([src EXCEPT !.Version = <<p.v>>], "trailing garbage after Source version")
    ELSE Parsed([src EXCEPT !.Version = <<p.v>>], Nil)

RECURSIVE SourceVersionLoop(_, _, _)
SourceVersionLoop(r, versionStr, src) ==
    IF r = << >> THEN Parsed(src, "reached EOF before Number finished")
    ELSE IF r[1] = ")" THEN SourceVersionAt(r, Parse(versionStr), src)
    ELSE SourceVersionLoop(Tail(r), versionStr \o <<r[1]>>, src)

\* parseSource once the name is read, the spaces after it discarded.
SourceNameDone(r, src) ==
    IF r = << >> THEN Parsed(src, Nil)
    ELSE IF r[1] /= "(" THEN Parsed(src, "expected '('")
    ELSE SourceVersionLoop(Tail(r), Str0, src)

RECURSIVE SourceNameLoop(_, _)
SourceNameLoop(r, src) ==
    IF r = << >> THEN Parsed(src, Nil)
    ELSE IF r[1] \in {" ", "("} THEN SourceNameDone(DiscardSpace(r), src)
    ELSE SourceNameLoop(Tail(r), [src EXCEPT !.Name = @ \o <<r[1]>>])

\* func parseSource(in string, ret *Source) error
parseSource(in, src) == SourceNameLoop(DiscardSpace(in), src)

---------------------------------------------------------------------------
(* The parsers run to their end.                                           *)

SourceItems == { <<"a">>, <<" ">>, <<"(">>, <<")">>, <<"1">>, <<"(", "1", ")">> }

SourceTexts == {Join(is, Str0) : is \in SeqsUpTo(SourceItems, MaxItems)}

ProgressTexts == {Join(is, Str0) : is \in SeqsUpTo(DependencyItems, MaxItems - 1)}

InitProgress ==
    /\ doc = Str0
    /\ input = Str0
    /\ paragraph = ZeroStanza
    /\ lastKey = Str0
    /\ pc = "parsing"
    /\ results = << >>
    /\ stream = PlainStream(Str0)
    /\ keyring = NilKeyring
    /\ signer = Nil
    /\ CodecIdle
    /\ args \in {<<"dependency", s>> : s \in ProgressTexts}
                \cup {<<"source", s>> : s \in SourceTexts}
    /\ ret = << >>

\* dependency.Parse returns.
DependencyReturns ==
    /\ pc = "parsing"
    /\ args[1] = "dependency"
    /\ ret' = <<DependencyParse(args[2])>>
    /\ VersionStep("returned")

\* Source.UnmarshalText returns.
SourceReturns ==
    /\ pc = "parsing"
    /\ args[1] = "source"
    /\ ret' = <<parseSource(args[2], Source(Str0, << >>))>>
    /\ VersionStep("returned")

NextProgress ==
    \/ DependencyReturns
    \/ SourceReturns

SpecProgress == InitProgress /\ [][NextProgress]_vars

\* The texts a parsing function may be called on: the ends of the text.
Suffixes(s) == {SubSeq(s, i, Len(s)) : i \in 1..Len(s)}

\* The call that returned `read` on the reader r failed or read something.
Consumed(r, read) == read.err /= Nil \/ Len(read.r) < Len(r)

NewPossibility ==
    Possibility(Str0, << >>, <<ArchSet(FALSE, << >>)>>, << << >> >>, << >>, FALSE)

\* Every call a parsing loop makes in an iteration, on any end r of the
\* text the loop can be at, fails or reads at least one character.
LoopsConsume(r) ==
    /\ r[1] /= "," => Consumed(r, parseRelation(r, Dependency(<< >>)))
    /\ r[1] \notin {",", "|"} => Consumed(r, parsePossibility(r, Relation(<< >>)))
    /\ r[1] \in {" ", "("} =>
           Consumed(r, parsePossibilityControllers(r, NewPossibility))
    /\ r[1] = "(" => Consumed(r, parsePossibilityVersion(r, NewPossibility))
    /\ r[1] = "[" => Consumed(r, parsePossibilityArchs(r, NewPossibility))
    /\ r[1] = "<" => Consumed(r, parsePossibilityStageSet(r, NewPossibility))
    /\ r[1] /= "]" => Consumed(r, parsePossibilityArch(r, NewPossibility))
    /\ r[1] /= ">" => Consumed(r, parsePossibilityStage(r, StageSet(<< >>)))
    /\ r[1] = "$" => Consumed(r, parseSubstvar(r, Relation(<< >>)))

\* C30: dependency.Parse and the Source parser return, a result or an
\* error, on every text; every call made by an iteration of a parsing loop
\* reads at least one character or ends with an error.
C30_ParsersTerminate ==
    pc = "returned" =>
        /\ DOMAIN ret[1] = {"v", "err"}
        /\ args[1] = "dependency" => \A r \in Suffixes(args[2]) : LoopsConsume(r)

\* dependency.Parse returned a Dependency for a text with an architecture
\* list and a stage set, every loop of the parser left at its end.
C30_Witness ==
    /\ pc = "returned"
    /\ args[1] = "dependency"
    /\ args[2] = <<"a">> \o <<" ", "[", "!", "x", "]">>
                 \o <<" ", "<", "!", "s", " ", "t", ">">>
    /\ ret[1].err = Nil
    /\ Len(ret[1].v.Relations) = 1

====
